---- MODULE Spec2Model ----
(***************************************************************************)
(* A model of axon's renderer (src/axon/renderer.py): the ANSI 256-colour  *)
(* palette, the Lab-based quantization lookup table, remap tables,         *)
(* posterization, the three dither modes of _build_idx_grid and the        *)
(* half-block compositor of render_image, together with the palette scan   *)
(* of src/axon/cli.py.                                                     *)
(*                                                                         *)
(* Floating point.  The renderer computes CIE-Lab coordinates in double    *)
(* precision.  They appear here in fixed point, scaled by LabScale and     *)
(* rounded to the nearest integer; squared distances are compared exactly  *)
(* as three-limb numbers.  At this scale the exhaustive search returns,    *)
(* for each of the 32768 bucket corners, the index the Python code         *)
(* computes.  Floyd-Steinberg error values are dyadic rationals, held      *)
(* exactly as a whole part and a fraction over FracScale.                  *)
(***************************************************************************)
EXTENDS Integers, Sequences, FiniteSets, TLC

VARIABLES
    \* quantization of one colour (SpecQuant)
    qpc, rgb, idx, exh, back, idx2,
    \* building and applying a remap table (SpecRemap)
    rpc, palette_rgb, swatch, remap, grid0, grid1, grid2, built,
    \* one call of _build_idx_grid (Spec, SpecPerm)
    pc, src, dither, poster, remap_arg, img, buf, grid, pos, done_px, lookup, raised,
    \* one call of render_image (SpecRender)
    vpc, image, columns, border, caption, lines, img_lines, render_grid,
    preview_grid, preview,
    \* one call of _scan_palettes (SpecScan)
    spc, is_dir, dir, todo, palettes,
    \* the settings menu loop of _generate_and_display (SpecMenu)
    mpc, settings, selected, active_row, key, drawn,
    \* generate_image and its spinner thread (SpecSpin)
    gpc, tpc, stop, api_key, response, outcome, dots

quantVars == <<qpc, rgb, idx, exh, back, idx2>>
remapVars == <<rpc, palette_rgb, swatch, remap, grid0, grid1, grid2, built>>

gridVars ==
    <<pc, src, dither, poster, remap_arg, img, buf, grid, pos, done_px, lookup, raised>>

renderVars ==
    <<vpc, image, columns, border, caption, lines, img_lines, render_grid,
      preview_grid, preview>>

scanVars == <<spc, is_dir, dir, todo, palettes>>

menuVars == <<mpc, settings, selected, active_row, key, drawn>>

spinVars == <<gpc, tpc, stop, api_key, response, outcome, dots>>

vars == <<quantVars, remapVars, gridVars, renderVars, scanVars, menuVars, spinVars>>

----------------------------------------------------------------------------
(* Python helpers *)

\* t[i] for a Python tuple t held as a 1-based sequence: a negative i counts
\* from the end.
PyIndex(t, i) == IF i < 0 THEN t[Len(t) + i + 1] ELSE t[i + 1]

Min(a, b) == IF a < b THEN a ELSE b
Max(a, b) == IF a > b THEN a ELSE b
Abs(a) == IF a < 0 THEN -a ELSE a

----------------------------------------------------------------------------
(* The palette *)

_CUBE_VALUES == <<0, 95, 135, 175, 215, 255>>

_GRAY_VALUES == [i \in 1..24 |-> 8 + 10 * (i - 1)]

\* _idx_to_rgb(idx); i // 36 and i % 36 floor, as \div and % do, and the
\* tuple index may be negative (idx < 16).
_idx_to_rgb(ix) ==
    IF ix >= 232
    THEN LET gv == PyIndex(_GRAY_VALUES, ix - 232) IN <<gv, gv, gv>>
    ELSE LET i == ix - 16
         IN  << PyIndex(_CUBE_VALUES, i \div 36),
                PyIndex(_CUBE_VALUES, (i % 36) \div 6),
                PyIndex(_CUBE_VALUES, i % 6) >>

----------------------------------------------------------------------------
(* CIE-Lab, in fixed point *)

LabScale == 2^16

\* _PALETTE_LAB[i + 1] = _rgb_to_lab(_idx_to_rgb(16 + i)), times LabScale.
_PALETTE_LAB ==
  <<
    <<0,0,0>>, <<488940,2516005,-3430427>>, <<924634,3235265,-4406707>>, <<1338034,3913073,-5329940>>,
    <<1734162,4562563,-6214600>>, <<2116617,5189633,-7068724>>, <<2252008,-2742123,2646562>>, <<2359504,-1530027,-449620>>,
    <<2472088,-542657,-1889936>>, <<2624370,527588,-3216371>>, <<2811248,1588073,-4434550>>, <<3026394,2595983,-5559787>>,
    <<3189583,-3521059,3398353>>, <<3255883,-2717661,843532>>, <<3327614,-1964652,-577340>>, <<3428172,-1054323,-1944347>>,
    <<3556747,-64522,-3233978>>, <<3711217,946117,-4445029>>, <<4077504,-4258743,4110329>>, <<4123129,-3688025,2002307>>,
    <<4173168,-3115171,654689>>, <<4244453,-2376258,-698296>>, <<4337453,-1519124,-2009280>>, <<4451774,-591257,-3263184>>,
    <<4928328,-4965607,4792559>>, <<4961998,-4537589,3041904>>, <<4999173,-4091878,1792991>>, <<5052572,-3494235,485933>>,
    <<5122988,-2770669,-814199>>, <<5210668,-1953228,-2080364>>, <<5749783,-5648071,5451240>>, <<5775854,-5313614,3983558>>,
    <<5804748,-4957791,2842246>>, <<5846445,-4469053,1599652>>, <<5901773,-3860324,331277>>, <<5971196,-3151464,-926101>>,
    <<1154496,2548346,1783115>>, <<1379873,3125575,-1935299>>, <<1590263,3611642,-3284004>>, <<1847359,4161356,-4468860>>,
    <<2134182,4736840,-5537473>>, <<2438533,5318753,-6523410>>, <<2551238,-685787,3006057>>, <<2642260,-1,0>>,
    <<2738908,636806,-1453901>>, <<2871563,1399754,-2806875>>, <<3037022,2222366,-4057673>>, <<3230629,3057322,-5217279>>,
    <<3379387,-2038624,3628223>>, <<3440240,-1465782,1126327>>, <<3506328,-901494,-292266>>, <<3599384,-187454,-1665460>>,
    <<3719015,624085,-2966408>>, <<3863608,1485682,-4191808>>, <<4209707,-3159051,4270990>>, <<4253095,-2698185,2194631>>,
    <<4300743,-2225822,852819>>, <<4368733,-1603309,-499799>>, <<4457617,-864374,-1814042>>, <<4567147,-46411,-3073645>>,
    <<5026480,-4120948,4912045>>, <<5059080,-3750068,3180940>>, <<5095093,-3360088,1937959>>, <<5146858,-2831556,633367>>,
    <<5215182,-2183744,-666856>>, <<5300352,-1442455,-1934936>>, <<5826042,-4978663,5544164>>, <<5851542,-4676303,4088954>>,
    <<5879809,-4353041,2952762>>, <<5920615,-3906505,1713143>>, <<5974785,-3346524,445938>>, <<6042793,-2689517,-811636>>,
    <<1780308,3272237,2630401>>, <<1924033,3651996,-1042219>>, <<2069706,4013436,-2485046>>, <<2260438,4459294,-3775649>>,
    <<2486764,4957991,-4943575>>, <<2739306,5485815,-6015670>>, <<2835481,598645,3337752>>, <<2914061,1068961,426820>>,
    <<2998316,1531771,-1033287>>, <<3115217,2116875,-2405367>>, <<3262859,2781640,-3682107>>, <<3437882,3488090,-4870678>>,
    <<3573813,-880594,3859968>>, <<3629745,-443555,1414325>>, <<3690690,-1,0>>, <<3776840,578401,-1377655>>,
    <<3888129,1256950,-2688433>>, <<4023377,1999385,-3926965>>, <<4349947,-2184684,4439790>>, <<4391136,-1804021,2397494>>,
    <<4436426,-1407872,1062504>>, <<4501152,-877179,-289057>>, <<4585940,-235541,-1606105>>, <<4690674,488103,-2871131>>,
    <<5132511,-3315157,5040317>>, <<5164010,-2991812,3330444>>, <<5198827,-2649082,2094122>>, <<5248908,-2180372,792468>>,
    <<5315070,-1599724,-507580>>, <<5397638,-927662,-1777461>>, <<5909285,-4310315,5645159>>, <<5934181,-4036955,4203585>>,
    <<5961787,-3743411,3073083>>, <<6001652,-3335835,1836835>>, <<6054598,-2821485,571034>>, <<6121108,-2213760,-686627>>,
    <<2372977,3957791,3314407>>, <<2473327,4226761,-159798>>, <<2579066,4499067,-1646836>>, <<2723006,4854276,-3005679>>,
    <<2900886,5272925,-4249921>>, <<3107090,5735734,-5397322>>, <<3187476,1791116,3737468>>, <<3253840,2119821,952653>>,
    <<3325638,2456499,-507469>>, <<3426283,2899942,-1896016>>, <<3554963,3426242,-3198552>>, <<3709547,4009379,-4417906>>,
    <<3830972,332482,4161215>>, <<3881254,659945,1792277>>, <<3936242,1000559,386322>>, <<4014309,1456588,-994575>>,
    <<4115707,2007598,-2315827>>, <<4239713,2628728,-3569425>>, <<4542232,-1065084,4668655>>, <<4580665,-760174,2673662>>,
    <<4622991,-438252,1349057>>, <<4683596,-1,0>>, <<4763183,539918,-1319867>>, <<4861785,1161056,-2591337>>,
    <<5280886,-2327439,5218461>>, <<5310936,-2054356,3538437>>, <<5344175,-1762453,2311850>>, <<5392030,-1359358,1014766>>,
    <<5455326,-854102,-284581>>, <<5534436,-261706,-1556535>>, <<6027203,-3453829,5787462>>, <<6051281,-3213670,4365222>>,
    <<6077988,-2954485,3242955>>, <<6116575,-2592485,2011696>>, <<6167854,-2132279,748107>>, <<6232320,-1583970,-509458>>,
    <<2940885,4614703,3872060>>, <<3015481,4816128,690028>>, <<3095704,5027017,-809275>>, <<3207390,5311785,-2207372>>,
    <<3349011,5659986,-3504560>>, <<3517618,6058563,-4710665>>, <<3584511,2854023,4176407>>, <<3640190,3092993,1539760>>,
    <<3700869,3344247,88205>>, <<3786660,3684787,-1310734>>, <<3897512,4102365,-2634847>>, <<4032268,4580793,-3882443>>,
    <<4139231,1498144,4515260>>, <<4183791,1745499,2240386>>, <<4232692,2007555,848116>>, <<4302411,2365729,-533080>>,
    <<4393457,2809150,-1863445>>, <<4505508,3322105,-3131895>>, <<4781783,93721,4949881>>, <<4817151,335510,3014422>>,
    <<4856167,593894,1704292>>, <<4912147,950585,359942>>, <<4985859,1397492,-961882>>, <<5077481,1921236,-2239881>>,
    <<5470192,-1241867,5443556>>, <<5498533,-1015322,3801745>>, <<5529908,-771275,2588231>>, <<5575126,-431166,1297715>>,
    <<5635019,-1,0>>, <<5710003,512036,-1273874>>, <<6179936,-2468623,5970488>>, <<6203012,-2261803,4573293>>,
    <<6228620,-2037483,3461973>>, <<6265637,-1722301,2237535>>, <<6314869,-1318580,977182>>, <<6376818,-833355,-279887>>,
    <<3489189,5248939,4404229>>, <<3547187,5406208,1501493>>, <<3610297,5574139,11020>>, <<3699363,5805901,-1405791>>,
    <<3814185,6096494,-2737176>>, <<3953408,6437884,-3986220>>, <<4009345,3801559,4635049>>, <<4056192,3982562,2158760>>,
    <<4107532,4176142,724773>>, <<4180606,4443680,-677192>>, <<4275829,4779493,-2016748>>, <<4392727,5174099,-3287626>>,
    <<4486346,2578647,4905924>>, <<4525551,2769316,2737983>>, <<4568708,2974003,1365285>>, <<4630471,3258108,-12102>>,
    <<4711523,3616511,-1348724>>, <<4811857,4039870,-2630101>>, <<5061744,1226543,5273530>>, <<5093971,1418976,3407936>>,
    <<5129579,1626590,2116659>>, <<5180775,1916450,779856>>, <<5248369,2284759,-542243>>, <<5332662,2723331,-1825921>>,
    <<5697082,-126075,5710285>>, <<5723560,60661,4114278>>, <<5752898,263168,2917313>>, <<5795227,547648,1635686>>,
    <<5851377,911948,340956>>, <<5921803,1349661,-934212>>, <<6366119,-1412546,6191709>>, <<6388056,-1236463,4824979>>,
    <<6412411,-1044605,3727398>>, <<6447640,-773534,2511791>>, <<6494532,-423836,1255926>>, <<6553600,-1,0>>,
    <<143746,0,0>>, <<358080,0,0>>, <<672936,0,0>>, <<993507,0,0>>,
    <<1301908,0,0>>, <<1600476,0,0>>, <<1890838,0,0>>, <<2174188,0,0>>,
    <<2451433,-1,0>>, <<2723286,-1,0>>, <<2990322,-1,0>>, <<3253012,-1,0>>,
    <<3511748,-1,0>>, <<3766862,-1,0>>, <<4018640,-1,0>>, <<4267327,-1,0>>,
    <<4513138,-1,0>>, <<4756261,-1,0>>, <<4996864,-1,0>>, <<5235096,-1,0>>,
    <<5471090,-1,0>>, <<5704967,-1,0>>, <<5936836,-1,0>>, <<6166796,-1,0>>
  >>

_PAL_COUNT == Len(_PALETTE_LAB)

\* The channel values at which _rgb_to_lab is tabulated (bucket corners).
LabCornerValues == <<0, 32, 88, 96, 128, 248>>

\* LabAtCorners[i][j][k] = _rgb_to_lab(LabCornerValues[i], LabCornerValues[j],
\* LabCornerValues[k]), times LabScale.
LabAtCorners ==
  <<
  <<
    <<<<0,0,0>>, <<61713,433662,-1136213>>, <<416954,2353554,-3240117>>, <<499772,2536343,-3456333>>, <<850131,3113110,-4240321>>, <<2050557,5081322,-6921195>>>>,
    <<<<607061,-1230099,885276>>, <<660982,-762853,-225538>>, <<920347,959925,-2407665>>, <<971840,1198738,-2673887>>, <<1200943,2079756,-3656434>>, <<2200673,4619826,-6670259>>>>,
    <<<<2081359,-2600347,2509727>>, <<2096866,-2402539,1680119>>, <<2183296,-1450920,-426373>>, <<2202794,-1263791,-726713>>, <<2298808,-446165,-1882019>>, <<2875587,2713290,-5551807>>>>,
    <<<<2276205,-2762225,2665964>>, <<2289960,-2586050,1902650>>, <<2367016,-1716205,-153553>>, <<2384489,-1541244,-452916>>, <<2470980,-763842,-1612266>>, <<3003224,2382663,-5342232>>>>,
    <<<<3029561,-3388113,3270040>>, <<3038720,-3269647,2709722>>, <<3090663,-2645446,879299>>, <<3102587,-2512206,591038>>, <<3162380,-1890471,-555541>>, <<3555427,1053496,-4443390>>>>,
    <<<<5607897,-5530192,5337469>>, <<5611341,-5485244,5101971>>, <<5631096,-5232050,4008974>>, <<5635685,-5174334,3798046>>, <<5658998,-4887142,2877498>>, <<5824689,-3085691,-906773>>>>
  >>,
  <<
    <<<<181846,815529,287350>>, <<243559,1248977,-843235>>, <<595527,2468368,-2938015>>, <<668076,2606728,-3171279>>, <<967512,3156039,-4041347>>, <<2096706,5096116,-6842908>>>>,
    <<<<757160,-344004,1117891>>, <<802818,0,0>>, <<1030155,1247440,-2224054>>, <<1076528,1446002,-2498463>>, <<1286546,2218661,-3512233>>, <<2242737,4648058,-6599013>>>>,
    <<<<2126622,-2207937,2564849>>, <<2141694,-2033826,1743719>>, <<2225805,-1178943,-358427>>, <<2244804,-1007869,-659079>>, <<2338485,-250858,-1816896>>, <<2904586,2777281,-5503077>>>>,
    <<<<2316414,-2410468,2714951>>, <<2329843,-2252361,1958495>>, <<2405151,-1459777,-93073>>, <<2422242,-1298212,-392562>>, <<2506929,-572980,-1553548>>, <<3030443,2450226,-5296569>>>>,
    <<<<3056433,-3147876,3302812>>, <<3065473,-3036417,2745639>>, <<3116756,-2446021,919373>>, <<3128531,-2319369,631307>>, <<3187599,-1725762,-515210>>, <<3576553,1129413,-4408221>>>>,
    <<<<5618034,-5437661,5349844>>, <<5621468,-5393362,5114707>>, <<5641163,-5143744,4022918>>, <<5645738,-5086823,3812156>>, <<5668982,-4803487,2892162>>, <<5834198,-3022728,-891560>>>>
  >>,
  <<
    <<<<1040591,2416589,1617261>>, <<1075001,2509649,477019>>, <<1254315,2963973,-1835238>>, <<1292318,3054836,-2124339>>, <<1469344,3459277,-3195678>>, <<2339283,5195006,-6432033>>>>,
    <<<<1341705,1587685,1975043>>, <<1368133,1697005,869434>>, <<1510103,2234110,-1429223>>, <<1541023,2341771,-1726652>>, <<1688353,2819858,-2838911>>, <<2466266,4808941,-6220970>>>>,
    <<<<2365117,-650330,2850635>>, <<2378168,-545841,2074501>>, <<2451433,-1,0>>, <<2468078,115535,-301596>>, <<2550647,650487,-1469956>>, <<3063796,3114767,-5235875>>>>,
    <<<<2531122,-946130,2972961>>, <<2542997,-845608,2253249>>, <<2609874,-316156,229752>>, <<2625118,-203212,-69912>>, <<2700991,323356,-1237681>>, <<3180495,2806832,-5045143>>>>,
    <<<<3204690,-2012339,3482207>>, <<3213113,-1928795,2942335>>, <<3260962,-1476866,1139873>>, <<3271966,-1377942,853040>>, <<3327251,-905577,-292515>>, <<3694572,1534121,-4211964>>>>,
    <<<<5675799,-4931775,5420226>>, <<5679174,-4890862,5187137>>, <<5698535,-4659923,4102244>>, <<5703032,-4607168,3892437>>, <<5725886,-4344069,2975621>>, <<5888434,-2673310,-804854>>>>
  >>,
  <<
    <<<<1170647,2567028,1806367>>, <<1201224,2649880,669368>>, <<1362948,3064018,-1655595>>, <<1397676,3148489,-1949487>>, <<1561179,3529671,-3041888>>, <<2391086,5220268,-6344432>>>>,
    <<<<1443016,1811374,2114588>>, <<1467370,1907314,1016939>>, <<1599181,2388796,-1283204>>, <<1628089,2487136,-1583271>>, <<1766685,2930084,-2708377>>, <<2514469,4845792,-6139574>>>>,
    <<<<2416157,-388284,2910844>>, <<2428828,-292474,2144348>>, <<2500037,212053,76715>>, <<2516233,319655,-224941>>, <<2596659,821221,-1395007>>, <<3099189,3186913,-5176553>>>>,
    <<<<2577628,-690815,3028095>>, <<2589202,-597979,2316333>>, <<2654436,-105694,299597>>, <<2669317,-1,0>>, <<2743449,495632,-1168829>>, <<3213985,2883098,-4989100>>>>,
    <<<<3237804,-1792816,3521958>>, <<3246097,-1713810,2985934>>, <<3293227,-1284967,1188980>>, <<3304068,-1190781,902456>>, <<3358556,-739604,-242746>>, <<3721257,1621450,-4167639>>>>,
    <<<<5689124,-4819887,5436429>>, <<5692486,-4779686,5203812>>, <<5711770,-4552687,4120511>>, <<5716250,-4500813,3910926>>, <<5739015,-4242005,2994849>>, <<5900957,-2594864,-784848>>>>
  >>,
  <<
    <<<<1673497,3148686,2494126>>, <<1693947,3204351,1395734>>, <<1806139,3499635,-930213>>, <<1831062,3563132,-1236731>>, <<1951968,3861899,-2391217>>, <<2633876,5355179,-5934570>>>>,
    <<<<1864013,2609864,2661223>>, <<1881900,2671345,1616195>>, <<1980858,2997670,-663425>>, <<2003020,3067842,-970958>>, <<2111374,3397756,-2137062>>, <<2742215,5028695,-5755639>>>>,
    <<<<2655779,648969,3189480>>, <<2666871,716827,2467877>>, <<2729473,1083704,436399>>, <<2743773,1163967,135063>>, <<2815103,1547018,-1040661>>, <<3271004,3524410,-4888986>>>>,
    <<<<2798177,339345,3286232>>, <<2808467,406583,2611878>>, <<2866659,771389,630109>>, <<2879980,851474,331294>>, <<2946572,1234933,-840745>>, <<3377175,3239843,-4716389>>>>,
    <<<<3399283,-847345,3714225>>, <<3406987,-785276,3196830>>, <<3450824,-444030,1427632>>, <<3460921,-368129,1142792>>, <<3511748,-1,0>>, <<3852965,2032838,-3949133>>>>,
    <<<<5756300,-4280309,5517933>>, <<5759595,-4243373,5287685>>, <<5778503,-4034465,4212426>>, <<5782896,-3986644,4003964>>, <<5805221,-3747622,3091650>>, <<5964155,-2210808,-683967>>>>
  >>,
  <<
    <<<<3394483,5139391,4312310>>, <<3402203,5160495,3634163>>, <<3446133,5279561,1628593>>, <<3456251,5306748,1324317>>, <<3507181,5442285,125442>>, <<3849013,6303521,-3903025>>>>,
    <<<<3469830,4922154,4339530>>, <<3477295,4943879,3692176>>, <<3519799,5066444,1724090>>, <<3529596,5094429,1422306>>, <<3578933,5233930,229336>>, <<3911286,6119644,-3803438>>>>,
    <<<<3861438,3835523,4516437>>, <<3867762,3859612,3995462>>, <<3903857,3995614,2210827>>, <<3912196,4026688,1922768>>, <<3954313,4181697,764406>>, <<4242638,5168235,-3276736>>>>,
    <<<<3944242,3614712,4559611>>, <<3950359,3639144,4059914>>, <<3985282,3777115,2311688>>, <<3993355,3808647,2026663>>, <<4034143,3965986,876357>>, <<4314178,4968728,-3163741>>>>,
    <<<<4329268,2627581,4778453>>, <<4334542,2653042,4360776>>, <<4364700,2797032,2771440>>, <<4371683,2829988,2500909>>, <<4407030,2994690,1390747>>, <<4652519,4053019,-2632933>>>>,
    <<<<6211370,-1383066,6062484>>, <<6214265,-1359642,5847914>>, <<6230888,-1226266,4827395>>, <<6234752,-1195524,4626796>>, <<6254404,-1040695,3741351>>, <<6394938,-1,0>>>>
  >>
  >>

CornerPos(v) == CHOOSE i \in 1..Len(LabCornerValues) : LabCornerValues[i] = v

_rgb_to_lab(r, g, b) == LabAtCorners[CornerPos(r)][CornerPos(g)][CornerPos(b)]

\* A squared distance dL*dL + da*da + db*db, exactly, as the three-limb number
\* <<hi, mid, lo>> = hi * LimbBase^2 + mid * LimbBase + lo with mid, lo < LimbBase.
LimbBase == 2^12

SqDist(p, q) ==
    LET dL == Abs(p[1] - q[1])
        da == Abs(p[2] - q[2])
        db == Abs(p[3] - q[3])
        hL == dL \div LimbBase
        lL == dL % LimbBase
        ha == da \div LimbBase
        la == da % LimbBase
        hb == db \div LimbBase
        lb == db % LimbBase
        s2 == hL * hL + ha * ha + hb * hb
        s1 == 2 * (hL * lL + ha * la + hb * lb)
        s0 == lL * lL + la * la + lb * lb
        m  == s1 + (s0 \div LimbBase)
    IN  << s2 + (m \div LimbBase), m % LimbBase, s0 % LimbBase >>

\* float("inf")
InfDist == << -1, -1, -1 >>

\* d < e
DistLess(d, e) ==
    \/ e = InfDist /\ d # InfDist
    \/ /\ e # InfDist
       /\ d # InfDist
       /\ \/ d[1] < e[1]
          \/ d[1] = e[1] /\ d[2] < e[2]
          \/ d[1] = e[1] /\ d[2] = e[2] /\ d[3] < e[3]

\* One iteration of the loop of _lab_nearest, on the state <<best, best_dist>>.
LabNearestStep(lab, i, st) ==
    LET d == SqDist(lab, _PALETTE_LAB[i + 1])
    IN  IF DistLess(d, st[2]) THEN <<i, d>> ELSE st

\* The iterations lo .. hi-1 of that loop, in ascending order (the range is
\* halved only to keep the evaluation shallow).
RECURSIVE LabNearestRange(_, _, _, _)
LabNearestRange(lab, lo, hi, st) ==
    IF hi <= lo THEN st
    ELSE IF hi = lo + 1 THEN LabNearestStep(lab, lo, st)
    ELSE LET mid == (lo + hi) \div 2
             left == LabNearestRange(lab, lo, mid, st)
         IN  IF left[1] >= 0 THEN LabNearestRange(lab, mid, hi, left) ELSE left

\* The search over the colour cube alone, without the gray ramp.
_lab_nearest_cube_only(lab) == LabNearestRange(lab, 0, 216, <<0, InfDist>>)[1] + 16

_lab_nearest(lab) == LabNearestRange(lab, 0, _PAL_COUNT, <<0, InfDist>>)[1] + 16

----------------------------------------------------------------------------
(* The quantization lookup table *)

_LUT_STEP == 8

_LUT_SIZE == 256 \div _LUT_STEP

\* The entry the module-level loop stores at [ri][gi][bi].
LutEntry(ri, gi, bi) ==
    _lab_nearest(_rgb_to_lab(Min(ri * _LUT_STEP, 255),
                             Min(gi * _LUT_STEP, 255),
                             Min(bi * _LUT_STEP, 255)))

\* The table as it stands once the module is loaded:
\* _RGB_TO_256_LUT[ri + 1][gi + 1][bi + 1].
_RGB_TO_256_LUT ==
  <<
  <<
    <<16,16,16,16,16,232,232,17,17,17,17,17,17,17,17,18,18,18,18,18,19,19,19,19,19,20,20,20,20,20,21,21>>,
    <<232,232,232,232,232,232,232,17,17,17,17,17,17,17,17,17,18,18,18,18,19,19,19,19,19,20,20,20,20,20,21,21>>,
    <<232,232,232,233,233,233,233,233,17,17,17,17,17,17,17,17,18,18,18,18,18,19,19,19,19,19,20,20,20,20,20,21>>,
    <<233,233,233,233,233,233,233,234,234,17,17,17,17,17,17,17,17,18,18,18,18,18,19,19,19,19,20,20,20,20,20,21>>,
    <<234,234,234,234,234,234,234,234,234,234,60,17,17,17,17,17,17,17,18,18,18,18,19,19,19,19,19,20,20,20,20,20>>,
    <<235,235,235,235,235,235,235,235,235,235,24,24,25,25,17,17,17,17,17,18,18,18,18,19,19,19,19,19,20,20,20,20>>,
    <<22,235,235,235,235,235,235,235,236,236,24,24,24,25,25,25,25,17,17,17,18,18,18,18,19,19,19,19,19,20,20,20>>,
    <<22,22,22,23,23,23,23,236,236,236,24,24,24,24,25,25,25,25,25,26,26,26,26,62,27,27,27,27,19,19,20,20>>,
    <<22,22,22,22,23,23,23,23,23,23,23,24,24,24,24,25,25,25,25,25,26,26,26,26,26,27,27,27,27,27,27,20>>,
    <<22,22,22,22,22,23,23,23,23,23,23,23,24,24,24,24,24,25,25,25,25,26,26,26,26,26,27,27,27,27,27,27>>,
    <<22,22,22,22,22,29,23,23,23,23,23,23,23,24,24,24,24,24,25,25,25,25,25,26,26,26,26,26,27,27,27,27>>,
    <<22,22,22,22,22,22,29,29,23,23,23,23,23,23,24,24,24,24,24,25,25,25,25,25,26,26,26,26,26,27,27,27>>,
    <<22,22,22,22,22,22,29,29,29,23,23,23,23,23,23,24,24,24,24,24,25,25,25,25,25,26,26,26,26,26,27,27>>,
    <<22,22,22,22,22,22,29,29,29,29,29,23,23,23,23,23,24,24,24,24,24,25,25,25,25,25,26,26,26,26,26,27>>,
    <<22,22,22,22,22,22,22,29,29,29,29,29,23,23,23,23,23,31,24,24,24,24,32,32,25,25,25,33,33,26,26,26>>,
    <<28,28,28,22,22,22,22,29,29,29,29,29,29,30,30,30,30,30,31,31,31,31,31,32,32,32,32,25,33,33,33,33>>,
    <<28,28,28,28,28,22,22,22,29,29,29,29,29,29,30,30,30,30,30,31,31,31,31,31,32,32,32,32,32,33,33,33>>,
    <<28,28,28,28,28,28,28,35,35,29,29,29,29,29,29,30,30,30,30,30,31,31,31,31,31,32,32,32,32,32,33,33>>,
    <<28,28,28,28,28,28,28,35,35,35,29,29,29,29,29,29,30,30,30,30,30,31,31,31,31,31,32,32,32,32,32,33>>,
    <<28,28,28,28,28,28,28,35,35,35,35,35,29,29,29,29,29,30,30,30,30,30,38,31,31,31,31,39,32,32,32,32>>,
    <<34,34,34,34,28,28,28,28,35,35,35,35,35,36,36,36,36,36,37,37,37,37,37,38,38,38,38,38,39,39,39,39>>,
    <<34,34,34,34,34,34,28,28,35,35,35,35,35,35,36,36,36,36,36,37,37,37,37,37,38,38,38,38,38,39,39,39>>,
    <<34,34,34,34,34,34,34,34,41,35,35,35,35,35,35,36,36,36,36,36,37,37,37,37,37,38,38,38,38,38,39,39>>,
    <<34,34,34,34,34,34,34,34,41,41,35,35,35,35,35,35,36,36,36,36,36,37,37,37,37,37,38,38,38,38,38,39>>,
    <<34,34,34,34,34,34,34,34,41,41,41,41,35,35,35,35,35,36,36,36,36,36,37,37,37,37,37,45,38,38,38,38>>,
    <<40,40,40,40,34,34,34,34,41,41,41,41,41,42,42,42,42,42,43,43,43,43,43,44,44,44,44,44,45,45,45,45>>,
    <<40,40,40,40,40,40,40,34,41,41,41,41,41,41,42,42,42,42,42,43,43,43,43,43,44,44,44,44,44,45,45,45>>,
    <<40,40,40,40,40,40,40,40,41,41,41,41,41,41,41,42,42,42,42,42,43,43,43,43,43,44,44,44,44,44,45,45>>,
    <<40,40,40,40,40,40,40,40,40,47,41,41,41,41,41,41,42,42,42,42,42,43,43,43,43,43,44,44,44,44,44,45>>,
    <<40,40,40,40,40,40,40,40,47,47,47,47,41,41,41,41,41,42,42,42,42,42,43,43,43,43,43,44,44,44,44,44>>,
    <<46,46,46,46,46,40,40,40,47,47,47,47,47,48,48,48,48,48,49,49,49,49,49,50,50,50,50,50,51,51,51,51>>,
    <<46,46,46,46,46,46,46,46,47,47,47,47,47,47,48,48,48,48,48,49,49,49,49,49,50,50,50,50,50,51,51,51>>
  >>,
  <<
    <<16,16,16,16,232,232,232,17,17,17,17,17,17,17,17,18,18,18,18,18,19,19,19,19,19,20,20,20,20,20,21,21>>,
    <<232,232,232,232,232,232,233,17,17,17,17,17,17,17,17,17,18,18,18,18,19,19,19,19,19,20,20,20,20,20,21,21>>,
    <<232,233,233,233,233,233,233,233,17,17,17,17,17,17,17,17,18,18,18,18,18,19,19,19,19,19,20,20,20,20,20,21>>,
    <<233,233,233,233,233,233,234,234,234,17,17,17,17,17,17,17,17,18,18,18,18,18,19,19,19,19,20,20,20,20,20,21>>,
    <<234,234,234,234,234,234,234,234,234,235,60,17,17,17,17,17,17,17,18,18,18,18,19,19,19,19,19,20,20,20,20,20>>,
    <<235,235,235,235,235,235,235,235,235,235,24,60,25,25,17,17,17,17,17,18,18,18,18,19,19,19,19,19,20,20,20,20>>,
    <<22,235,235,235,235,235,235,236,236,236,24,24,24,25,25,25,25,17,17,17,18,18,18,18,19,19,19,19,19,20,20,20>>,
    <<22,22,22,23,23,23,236,236,236,236,24,24,24,24,25,25,25,25,25,26,26,26,26,62,27,27,27,27,19,19,20,20>>,
    <<22,22,22,22,23,23,23,23,23,23,237,24,24,24,24,25,25,25,25,25,26,26,26,26,26,27,27,27,27,27,27,20>>,
    <<22,22,22,22,22,23,23,23,23,23,23,23,24,24,24,24,25,25,25,25,25,26,26,26,26,26,27,27,27,27,27,27>>,
    <<22,22,22,22,22,29,23,23,23,23,23,23,23,24,24,24,24,24,25,25,25,25,25,26,26,26,26,26,27,27,27,27>>,
    <<22,22,22,22,22,22,29,29,23,23,23,23,23,23,24,24,24,24,24,25,25,25,25,25,26,26,26,26,26,27,27,27>>,
    <<22,22,22,22,22,22,29,29,29,23,23,23,23,23,23,24,24,24,24,24,25,25,25,25,25,26,26,26,26,26,27,27>>,
    <<22,22,22,22,22,22,29,29,29,29,23,23,23,23,23,23,24,24,24,24,24,25,25,25,25,25,26,26,26,26,26,27>>,
    <<22,22,22,22,22,22,22,29,29,29,29,29,23,23,23,23,23,31,24,24,24,24,32,32,25,25,25,33,33,26,26,26>>,
    <<28,28,28,22,22,22,22,29,29,29,29,29,29,30,30,30,30,30,31,31,31,31,31,32,32,32,32,25,33,33,33,33>>,
    <<28,28,28,28,28,22,22,22,29,29,29,29,29,29,30,30,30,30,30,31,31,31,31,31,32,32,32,32,32,33,33,33>>,
    <<28,28,28,28,28,28,28,35,35,29,29,29,29,29,29,30,30,30,30,30,31,31,31,31,31,32,32,32,32,32,33,33>>,
    <<28,28,28,28,28,28,28,35,35,35,29,29,29,29,29,29,30,30,30,30,30,31,31,31,31,31,32,32,32,32,32,33>>,
    <<28,28,28,28,28,28,28,35,35,35,35,35,29,29,29,29,29,30,30,30,30,30,38,31,31,31,31,39,32,32,32,32>>,
    <<34,34,34,28,28,28,28,28,35,35,35,35,35,36,36,36,36,36,37,37,37,37,37,38,38,38,38,38,39,39,39,39>>,
    <<34,34,34,34,34,34,28,28,35,35,35,35,35,35,36,36,36,36,36,37,37,37,37,37,38,38,38,38,38,39,39,39>>,
    <<34,34,34,34,34,34,34,34,77,35,35,35,35,35,35,36,36,36,36,36,37,37,37,37,37,38,38,38,38,38,39,39>>,
    <<34,34,34,34,34,34,34,34,41,41,35,35,35,35,35,35,36,36,36,36,36,37,37,37,37,37,38,38,38,38,38,39>>,
    <<34,34,34,34,34,34,34,34,41,41,41,41,35,35,35,35,35,36,36,36,36,36,37,37,37,37,37,45,38,38,38,38>>,
    <<40,40,40,40,34,34,34,34,41,41,41,41,41,42,42,42,42,42,43,43,43,43,43,44,44,44,44,44,45,45,45,45>>,
    <<40,40,40,40,40,40,40,34,41,41,41,41,41,41,42,42,42,42,42,43,43,43,43,43,44,44,44,44,44,45,45,45>>,
    <<40,40,40,40,40,40,40,40,41,41,41,41,41,41,41,42,42,42,42,42,43,43,43,43,43,44,44,44,44,44,45,45>>,
    <<40,40,40,40,40,40,40,40,40,83,41,41,41,41,41,41,42,42,42,42,42,43,43,43,43,43,44,44,44,44,44,45>>,
    <<40,40,40,40,40,40,40,40,47,47,47,47,41,41,41,41,41,42,42,42,42,42,43,43,43,43,43,44,44,44,44,44>>,
    <<46,46,46,46,46,40,40,40,47,47,47,47,47,48,48,48,48,48,49,49,49,49,49,50,50,50,50,86,51,51,51,51>>,
    <<46,46,46,46,46,46,46,47,47,47,47,47,47,47,48,48,48,48,48,49,49,49,49,49,50,50,50,50,50,51,51,51>>
  >>,
  <<
    <<16,232,232,232,232,232,232,17,17,17,17,17,17,17,17,18,18,18,18,18,19,19,19,19,19,20,20,20,20,20,21,21>>,
    <<232,232,232,232,232,233,233,17,17,17,17,17,17,17,17,17,18,18,18,18,19,19,19,19,19,20,20,20,20,20,21,21>>,
    <<233,233,233,233,233,233,233,233,17,17,17,17,17,17,17,17,18,18,18,18,18,19,19,19,19,19,20,20,20,20,20,21>>,
    <<233,233,233,233,233,234,234,234,234,17,17,17,17,17,17,17,17,18,18,18,18,18,19,19,19,19,20,20,20,20,20,21>>,
    <<234,234,234,234,234,234,234,234,234,235,60,17,17,17,17,17,17,17,18,18,18,18,19,19,19,19,19,20,20,20,20,20>>,
    <<235,235,235,235,235,235,235,235,235,235,60,60,25,25,17,17,17,17,17,18,18,18,18,19,19,19,19,19,20,20,20,20>>,
    <<22,235,235,235,235,235,236,236,236,236,24,24,60,25,25,25,61,17,17,17,18,18,18,18,19,19,19,19,19,20,20,20>>,
    <<22,22,22,236,236,236,236,236,236,236,24,24,24,24,25,25,25,25,61,26,26,26,26,62,27,27,27,27,19,19,20,20>>,
    <<22,22,22,22,23,23,23,23,23,237,237,24,24,24,24,25,25,25,25,25,26,26,26,26,26,27,27,27,27,27,63,20>>,
    <<22,22,22,22,22,23,23,23,23,23,23,23,24,24,24,24,25,25,25,25,25,26,26,26,26,26,27,27,27,27,27,27>>,
    <<22,22,22,22,22,29,23,23,23,23,23,23,23,24,24,24,24,24,25,25,25,25,25,26,26,26,26,26,27,27,27,27>>,
    <<22,22,22,22,22,22,29,29,23,23,23,23,23,23,24,24,24,24,24,25,25,25,25,25,26,26,26,26,26,27,27,27>>,
    <<22,22,22,22,22,22,29,29,29,23,23,23,23,23,23,24,24,24,24,24,25,25,25,25,25,26,26,26,26,26,27,27>>,
    <<22,22,22,22,22,22,29,29,29,29,23,23,23,23,23,23,24,24,24,24,24,25,25,25,25,25,26,26,26,26,26,27>>,
    <<22,22,22,22,22,22,22,29,29,29,29,29,23,23,23,23,23,31,24,24,24,24,32,25,25,25,25,33,33,26,26,26>>,
    <<28,28,28,22,22,22,22,29,29,29,29,29,29,30,30,30,30,30,31,31,31,31,31,32,32,32,32,25,33,33,33,33>>,
    <<28,28,28,28,28,22,22,22,29,29,29,29,29,29,30,30,30,30,30,31,31,31,31,31,32,32,32,32,32,33,33,33>>,
    <<28,28,28,28,28,28,28,35,35,29,29,29,29,29,29,30,30,30,30,30,31,31,31,31,31,32,32,32,32,32,33,33>>,
    <<28,28,28,28,28,28,28,35,35,35,29,29,29,29,29,29,30,30,30,30,30,31,31,31,31,31,32,32,32,32,32,33>>,
    <<28,28,28,28,28,28,28,35,35,35,35,35,29,29,29,29,29,30,30,30,30,30,38,31,31,31,31,39,32,32,32,32>>,
    <<34,34,34,28,28,28,28,28,35,35,35,35,35,36,36,36,36,36,37,37,37,37,37,38,38,38,38,74,39,39,39,39>>,
    <<34,34,34,34,34,34,28,28,35,35,35,35,35,35,36,36,36,36,36,37,37,37,37,37,38,38,38,38,38,39,39,39>>,
    <<34,34,34,34,34,34,34,34,77,35,35,35,35,35,35,36,36,36,36,36,37,37,37,37,37,38,38,38,38,38,39,39>>,
    <<34,34,34,34,34,34,34,34,41,41,35,35,35,35,35,35,36,36,36,36,36,37,37,37,37,37,38,38,38,38,38,39>>,
    <<34,34,34,34,34,34,34,34,41,41,41,41,35,35,35,35,35,36,36,36,36,36,37,37,37,37,37,45,38,38,38,38>>,
    <<40,40,40,40,34,34,34,34,41,41,41,41,41,42,42,42,42,42,43,43,43,43,43,44,44,44,44,80,45,45,45,45>>,
    <<40,40,40,40,40,40,40,34,41,41,41,41,41,41,42,42,42,42,42,43,43,43,43,43,44,44,44,44,44,45,45,45>>,
    <<40,40,40,40,40,40,40,40,41,41,41,41,41,41,41,42,42,42,42,42,43,43,43,43,43,44,44,44,44,44,45,45>>,
    <<40,40,40,40,40,40,40,40,40,83,41,41,41,41,41,41,42,42,42,42,42,43,43,43,43,43,44,44,44,44,44,45>>,
    <<40,40,40,40,40,40,40,40,47,47,47,47,41,41,41,41,41,42,42,42,42,42,43,43,43,43,43,44,44,44,44,44>>,
    <<46,46,46,46,40,40,40,40,47,47,47,47,47,48,48,48,48,48,49,49,49,49,49,50,50,50,50,86,51,51,51,51>>,
    <<46,46,46,46,46,46,46,47,47,47,47,47,47,47,48,48,48,48,48,49,49,49,49,49,50,50,50,50,50,51,51,51>>
  >>,
  <<
    <<232,232,232,232,232,232,53,17,17,17,17,17,17,17,17,18,18,18,18,18,19,19,19,19,19,20,20,20,20,20,21,21>>,
    <<232,232,232,233,233,233,233,17,17,17,17,17,17,17,17,17,18,18,18,18,18,19,19,19,19,20,20,20,20,20,21,21>>,
    <<233,233,233,233,233,233,233,233,17,17,17,17,17,17,17,17,18,18,18,18,18,19,19,19,19,19,20,20,20,20,20,21>>,
    <<233,233,234,234,234,234,234,234,234,17,17,17,17,17,17,17,17,18,18,18,18,18,19,19,19,19,20,20,20,20,20,21>>,
    <<234,234,234,234,234,234,234,234,235,60,60,17,17,17,17,17,17,17,18,18,18,18,19,19,19,19,19,20,20,20,20,20>>,
    <<235,235,235,235,235,235,235,235,235,235,60,60,25,61,17,17,17,17,17,18,18,18,18,19,19,19,19,19,20,20,20,20>>,
    <<235,235,235,235,236,236,236,236,236,236,24,60,60,25,25,25,61,17,17,17,18,18,18,18,19,19,19,19,19,20,20,20>>,
    <<22,22,236,236,236,236,236,236,236,236,237,24,24,60,25,25,25,25,61,26,26,26,62,62,27,27,27,63,19,19,20,20>>,
    <<22,22,22,65,23,23,23,23,237,237,237,24,24,24,24,25,25,25,25,25,26,26,26,26,62,27,27,27,27,27,63,20>>,
    <<22,22,22,22,65,23,23,23,23,23,23,23,24,24,24,24,25,25,25,25,25,26,26,26,26,26,27,27,27,27,27,27>>,
    <<22,22,22,22,22,65,23,23,23,23,23,23,23,24,24,24,24,24,25,25,25,25,25,26,26,26,26,26,27,27,27,27>>,
    <<22,22,22,22,22,22,29,23,23,23,23,23,23,23,24,24,24,24,24,25,25,25,25,25,26,26,26,26,26,27,27,27>>,
    <<22,22,22,22,22,22,29,29,29,23,23,23,23,23,23,24,24,24,24,24,25,25,25,25,25,26,26,26,26,26,27,27>>,
    <<22,22,22,22,22,22,22,29,29,29,23,23,23,23,23,23,24,24,24,24,24,25,25,25,25,25,26,26,26,26,26,27>>,
    <<22,22,22,22,22,22,22,29,29,29,29,29,23,23,23,23,23,31,24,24,24,24,32,25,25,25,25,33,26,26,26,26>>,
    <<28,28,22,22,22,22,22,29,29,29,29,29,29,30,30,30,30,30,31,31,31,31,31,32,32,32,32,25,33,33,33,33>>,
    <<28,28,28,28,28,22,22,22,29,29,29,29,29,29,30,30,30,30,30,31,31,31,31,31,32,32,32,32,32,33,33,33>>,
    <<28,28,28,28,28,28,28,35,71,29,29,29,29,29,29,30,30,30,30,30,31,31,31,31,31,32,32,32,32,32,33,33>>,
    <<28,28,28,28,28,28,28,35,35,35,29,29,29,29,29,29,30,30,30,30,30,31,31,31,31,31,32,32,32,32,32,33>>,
    <<28,28,28,28,28,28,28,35,35,35,35,35,29,29,29,29,29,30,30,30,30,30,38,31,31,31,31,39,32,32,32,32>>,
    <<34,34,34,28,28,28,28,28,35,35,35,35,35,36,36,36,36,36,37,37,37,37,37,38,38,38,38,74,39,39,39,39>>,
    <<34,34,34,34,34,34,28,28,35,35,35,35,35,35,36,36,36,36,36,37,37,37,37,37,38,38,38,38,38,39,39,39>>,
    <<34,34,34,34,34,34,34,34,77,35,35,35,35,35,35,36,36,36,36,36,37,37,37,37,37,38,38,38,38,38,39,39>>,
    <<34,34,34,34,34,34,34,34,41,77,35,35,35,35,35,35,36,36,36,36,36,37,37,37,37,37,38,38,38,38,38,39>>,
    <<34,34,34,34,34,34,34,34,41,41,41,41,35,35,35,35,35,36,36,36,36,36,37,37,37,37,37,38,38,38,38,38>>,
    <<40,40,40,40,34,34,34,34,41,41,41,41,41,42,42,42,42,42,43,43,43,43,43,44,44,44,44,80,45,45,45,45>>,
    <<40,40,40,40,40,40,40,34,41,41,41,41,41,41,42,42,42,42,42,43,43,43,43,43,44,44,44,44,44,45,45,45>>,
    <<40,40,40,40,40,40,40,40,41,41,41,41,41,41,41,42,42,42,42,42,43,43,43,43,43,44,44,44,44,44,45,45>>,
    <<40,40,40,40,40,40,40,40,83,83,41,41,41,41,41,41,42,42,42,42,42,43,43,43,43,43,44,44,44,44,44,45>>,
    <<40,40,40,40,40,40,40,40,47,47,47,83,41,41,41,41,41,42,42,42,42,42,43,43,43,43,43,44,44,44,44,44>>,
    <<46,46,46,46,40,40,40,40,47,47,47,47,47,48,48,48,48,48,49,49,49,49,49,50,50,50,50,86,51,51,51,51>>,
    <<46,46,46,46,46,46,46,47,47,47,47,47,47,47,48,48,48,48,48,49,49,49,49,49,50,50,50,50,50,51,51,51>>
  >>,
  <<
    <<232,232,232,232,232,233,53,53,17,17,17,17,17,17,17,18,18,18,18,18,19,19,19,19,19,20,20,20,20,20,21,21>>,
    <<233,233,233,233,233,233,233,53,17,17,17,17,17,17,17,17,18,18,18,18,18,19,19,19,19,20,20,20,20,20,21,21>>,
    <<233,233,233,233,233,233,234,234,53,17,17,17,17,17,17,17,18,18,18,18,18,19,19,19,19,19,20,20,20,20,20,21>>,
    <<234,234,234,234,234,234,234,234,234,53,17,17,17,17,17,17,17,18,18,18,18,18,19,19,19,19,20,20,20,20,20,21>>,
    <<234,234,234,234,234,234,235,235,235,60,60,17,17,17,17,17,17,17,18,18,18,18,18,19,19,19,19,20,20,20,20,20>>,
    <<235,235,235,235,235,235,235,235,235,235,60,60,61,61,17,17,17,17,17,18,18,18,18,19,19,19,19,19,20,20,20,20>>,
    <<236,236,236,236,236,236,236,236,236,236,236,60,60,25,25,61,61,17,17,17,18,18,18,18,19,19,19,19,19,20,20,20>>,
    <<58,58,236,236,236,236,236,236,236,237,237,24,60,60,25,25,25,61,61,26,26,62,62,62,27,27,63,63,19,56,20,20>>,
    <<22,22,22,65,237,237,237,237,237,237,237,24,24,24,60,25,25,25,25,61,26,26,26,26,62,27,27,27,27,63,63,20>>,
    <<22,22,22,22,65,23,23,23,23,23,23,238,24,24,24,24,25,25,25,25,25,26,26,26,26,26,27,27,27,27,27,63>>,
    <<22,22,22,22,22,65,23,23,23,23,23,23,23,24,24,24,24,25,25,25,25,25,26,26,26,26,26,26,27,27,27,27>>,
    <<22,22,22,22,22,65,65,65,23,23,23,23,23,23,24,24,24,24,24,25,25,25,25,25,26,26,26,26,26,27,27,27>>,
    <<22,22,22,22,22,22,29,29,65,23,23,23,23,23,23,24,24,24,24,24,25,25,25,25,25,26,26,26,26,26,27,27>>,
    <<22,22,22,22,22,22,22,29,29,29,23,23,23,23,23,23,24,24,24,24,24,25,25,25,25,25,26,26,26,26,26,27>>,
    <<22,22,22,22,22,22,22,29,29,29,29,29,23,23,23,23,23,24,24,24,24,24,32,25,25,25,25,33,26,26,26,26>>,
    <<28,28,22,22,22,22,22,29,29,29,29,29,29,30,30,30,30,30,31,31,31,31,24,32,32,32,32,25,33,33,33,33>>,
    <<28,28,28,28,28,22,22,22,29,29,29,29,29,29,30,30,30,30,30,31,31,31,31,31,32,32,32,32,32,33,33,33>>,
    <<28,28,28,28,28,28,28,71,71,29,29,29,29,29,29,30,30,30,30,30,31,31,31,31,31,32,32,32,32,32,33,33>>,
    <<28,28,28,28,28,28,28,35,35,35,29,29,29,29,29,29,30,30,30,30,30,31,31,31,31,31,32,32,32,32,32,33>>,
    <<28,28,28,28,28,28,28,28,35,35,35,35,29,29,29,29,29,30,30,30,30,30,31,31,31,31,31,39,32,32,32,32>>,
    <<34,34,34,28,28,28,28,28,35,35,35,35,35,36,36,36,36,36,37,37,37,37,73,38,38,38,38,74,39,39,39,75>>,
    <<34,34,34,34,34,34,28,28,35,35,35,35,35,35,36,36,36,36,36,37,37,37,37,37,38,38,38,38,74,39,39,39>>,
    <<34,34,34,34,34,34,34,34,77,35,35,35,35,35,35,36,36,36,36,36,37,37,37,37,37,38,38,38,38,38,39,39>>,
    <<34,34,34,34,34,34,34,34,77,77,35,35,35,35,35,35,36,36,36,36,36,37,37,37,37,37,38,38,38,38,38,39>>,
    <<34,34,34,34,34,34,34,34,41,41,41,41,35,35,35,35,35,36,36,36,36,36,37,37,37,37,37,38,38,38,38,38>>,
    <<40,40,40,34,34,34,34,34,41,41,41,41,41,42,42,42,42,42,43,43,43,43,79,44,44,44,44,80,45,45,45,81>>,
    <<40,40,40,40,40,40,40,34,41,41,41,41,41,41,42,42,42,42,42,43,43,43,43,43,44,44,44,44,80,45,45,45>>,
    <<40,40,40,40,40,40,40,40,41,41,41,41,41,41,41,42,42,42,42,42,43,43,43,43,43,44,44,44,44,44,45,45>>,
    <<40,40,40,40,40,40,40,40,83,83,41,41,41,41,41,41,42,42,42,42,42,43,43,43,43,43,44,44,44,44,44,45>>,
    <<40,40,40,40,40,40,40,40,47,83,83,83,41,41,41,41,41,42,42,42,42,42,43,43,43,43,43,44,44,44,44,44>>,
    <<46,46,46,46,40,40,40,40,47,47,47,47,47,48,48,48,48,48,49,49,49,49,85,50,50,50,50,86,51,51,51,87>>,
    <<46,46,46,46,46,46,46,47,47,47,47,47,47,47,48,48,48,48,48,49,49,49,49,49,50,50,50,50,86,51,51,51>>
  >>,
  <<
    <<233,233,233,233,233,53,53,53,53,17,17,17,17,17,17,18,18,18,18,18,19,19,19,19,19,20,20,20,20,20,21,21>>,
    <<233,233,233,233,233,233,53,53,53,53,17,17,17,17,17,17,18,18,18,18,18,19,19,19,19,19,20,20,20,20,57,21>>,
    <<233,233,233,234,234,234,234,234,53,53,17,17,17,17,17,17,17,18,18,18,18,19,19,19,19,19,20,20,20,20,20,21>>,
    <<234,234,234,234,234,234,234,234,234,53,53,17,17,17,17,17,17,18,18,18,18,18,19,19,19,19,20,20,20,20,20,57>>,
    <<234,234,235,235,235,235,235,235,235,60,60,53,17,17,17,17,17,17,18,18,18,18,18,19,19,19,19,20,20,20,20,20>>,
    <<235,235,235,235,235,235,235,235,235,236,60,60,61,61,17,17,17,17,17,18,18,18,18,19,19,19,19,19,20,20,20,20>>,
    <<236,236,236,236,236,236,236,236,236,236,60,60,60,60,61,61,61,17,17,17,18,18,18,18,19,19,19,19,19,20,20,20>>,
    <<58,58,236,236,236,236,236,237,237,237,237,60,60,60,60,25,61,61,61,26,62,62,62,62,27,63,63,63,63,56,20,20>>,
    <<58,58,58,237,237,237,237,237,237,237,237,237,24,60,60,60,25,25,61,61,26,26,26,62,62,27,27,63,63,63,63,20>>,
    <<22,22,22,22,65,23,23,23,238,238,238,238,24,24,24,60,25,25,25,25,61,26,26,26,26,62,27,27,27,27,63,63>>,
    <<22,22,22,22,65,65,23,23,23,23,23,23,24,24,24,24,24,25,25,25,25,25,26,26,26,26,26,62,27,27,27,27>>,
    <<22,22,22,22,22,65,65,65,23,23,23,23,23,23,24,24,24,24,24,25,25,25,25,25,26,26,26,26,26,27,27,27>>,
    <<22,22,22,22,22,22,65,65,65,23,23,23,23,23,23,24,24,24,24,24,25,25,25,25,25,26,26,26,26,26,27,27>>,
    <<22,22,22,22,22,22,22,29,65,65,23,23,23,23,23,23,24,24,24,24,24,25,25,25,25,25,26,26,26,26,26,27>>,
    <<22,22,22,22,22,22,22,29,29,29,29,65,23,23,23,23,23,24,24,24,24,24,32,25,25,25,25,33,26,26,26,26>>,
    <<28,22,22,22,22,22,22,29,29,29,29,29,29,30,30,30,30,66,31,31,31,31,67,32,32,32,68,68,33,33,33,69>>,
    <<28,28,28,28,22,22,22,22,29,29,29,29,29,29,30,30,30,30,30,31,31,31,31,31,32,32,32,32,68,33,33,33>>,
    <<28,28,28,28,28,28,28,71,71,29,29,29,29,29,29,30,30,30,30,30,31,31,31,31,31,32,32,32,32,32,33,33>>,
    <<28,28,28,28,28,28,28,71,71,71,29,29,29,29,29,29,30,30,30,30,30,31,31,31,31,31,32,32,32,32,32,33>>,
    <<28,28,28,28,28,28,28,28,35,35,35,71,29,29,29,29,29,30,30,30,30,30,31,31,31,31,31,39,32,32,32,32>>,
    <<34,34,28,28,28,28,28,28,35,35,35,35,35,36,36,36,36,72,37,37,37,37,73,38,38,38,74,74,39,39,39,75>>,
    <<34,34,34,34,34,28,28,28,35,35,35,35,35,35,36,36,36,36,36,37,37,37,37,37,38,38,38,38,74,39,39,39>>,
    <<34,34,34,34,34,34,34,77,77,35,35,35,35,35,35,36,36,36,36,36,37,37,37,37,37,38,38,38,38,38,39,39>>,
    <<34,34,34,34,34,34,34,34,77,77,35,35,35,35,35,35,36,36,36,36,36,37,37,37,37,37,38,38,38,38,38,39>>,
    <<34,34,34,34,34,34,34,34,41,77,77,77,35,35,35,35,35,36,36,36,36,36,37,37,37,37,37,38,38,38,38,38>>,
    <<40,40,40,34,34,34,34,34,41,41,41,41,41,42,42,42,42,78,43,43,43,43,79,44,44,44,80,80,45,45,45,81>>,
    <<40,40,40,40,40,40,34,34,41,41,41,41,41,41,42,42,42,42,42,43,43,43,43,43,44,44,44,44,80,45,45,45>>,
    <<40,40,40,40,40,40,40,40,83,41,41,41,41,41,41,42,42,42,42,42,43,43,43,43,43,44,44,44,44,44,45,45>>,
    <<40,40,40,40,40,40,40,40,83,83,41,41,41,41,41,41,42,42,42,42,42,43,43,43,43,43,44,44,44,44,44,45>>,
    <<40,40,40,40,40,40,40,40,83,83,83,83,41,41,41,41,41,42,42,42,42,85,43,43,43,43,43,44,44,44,44,44>>,
    <<46,46,46,46,40,40,40,40,47,47,47,47,83,48,48,48,48,84,49,49,49,49,85,50,50,50,86,86,51,51,51,87>>,
    <<46,46,46,46,46,46,46,40,47,47,47,47,47,47,48,48,48,48,48,49,49,49,49,49,50,50,50,50,86,51,51,51>>
  >>,
  <<
    <<233,233,233,233,233,53,53,53,53,53,17,17,17,17,17,17,18,18,18,18,19,19,19,19,19,56,20,20,20,20,57,21>>,
    <<233,233,233,233,234,234,53,53,53,53,53,17,17,17,17,17,18,18,18,18,18,19,19,19,19,19,20,20,20,20,57,21>>,
    <<234,234,234,234,234,234,234,53,53,53,53,17,17,17,17,17,17,18,18,18,18,19,19,19,19,19,20,20,20,20,20,57>>,
    <<234,234,234,234,234,234,234,235,53,53,53,53,17,17,17,17,17,18,18,18,18,18,19,19,19,19,56,20,20,20,20,57>>,
    <<235,235,235,235,235,235,235,235,235,60,60,53,53,17,17,17,17,17,18,18,18,18,18,19,19,19,19,56,20,20,20,20>>,
    <<235,235,235,235,235,235,235,236,236,236,60,60,61,61,17,17,17,17,17,18,18,18,18,55,19,19,19,19,56,20,20,20>>,
    <<236,236,236,236,236,236,236,236,236,236,60,60,60,60,61,61,61,17,17,17,62,18,18,18,55,19,19,19,56,56,20,20>>,
    <<58,58,236,236,237,237,237,237,237,237,237,60,60,60,60,61,61,61,61,62,62,62,62,62,63,63,63,63,63,56,56,20>>,
    <<58,58,58,237,237,237,237,237,237,237,237,238,60,60,60,60,61,61,61,61,61,62,62,62,62,62,63,63,63,63,63,56>>,
    <<58,58,58,58,65,238,238,238,238,238,238,238,24,24,60,60,60,25,25,61,61,61,26,26,62,62,62,27,27,63,63,63>>,
    <<22,22,22,22,65,65,65,23,23,23,239,239,239,24,24,24,60,60,25,25,25,61,61,26,26,26,62,62,27,27,27,63>>,
    <<22,22,22,22,22,65,65,65,23,23,23,23,23,24,24,24,24,24,60,25,25,25,25,61,26,26,26,26,62,27,27,27>>,
    <<22,22,22,22,22,22,65,65,65,23,23,23,23,23,23,24,24,24,24,24,25,25,25,25,25,26,26,26,26,26,27,27>>,
    <<22,22,22,22,22,22,65,65,65,65,23,23,23,23,23,23,24,24,24,24,24,25,25,25,25,25,26,26,26,26,26,27>>,
    <<22,22,22,22,22,22,22,29,29,65,65,65,23,23,23,23,23,24,24,24,24,24,32,25,25,25,25,33,26,26,26,26>>,
    <<22,22,22,22,22,22,22,22,29,29,29,29,65,30,30,30,66,66,31,31,31,67,67,32,32,32,68,68,33,33,33,69>>,
    <<28,28,28,28,22,22,22,22,29,29,29,29,29,29,30,30,30,30,66,31,31,31,31,67,32,32,32,32,68,33,33,33>>,
    <<28,28,28,28,28,28,22,71,71,29,29,29,29,29,29,30,30,30,30,30,31,31,31,31,31,32,32,32,32,68,33,33>>,
    <<28,28,28,28,28,28,28,71,71,71,29,29,29,29,29,29,30,30,30,30,30,31,31,31,31,31,32,32,32,32,32,33>>,
    <<28,28,28,28,28,28,28,28,71,71,71,71,29,29,29,29,72,30,30,30,30,30,31,31,31,31,31,39,32,32,32,32>>,
    <<34,28,28,28,28,28,28,28,35,35,35,35,71,36,36,36,72,72,37,37,37,73,73,38,38,38,74,74,39,39,39,75>>,
    <<34,34,34,34,34,28,28,28,35,35,35,35,35,35,36,36,36,36,72,37,37,37,37,73,38,38,38,74,74,39,39,39>>,
    <<34,34,34,34,34,34,34,77,77,35,35,35,35,35,35,36,36,36,36,36,37,37,37,37,37,38,38,38,38,74,39,39>>,
    <<34,34,34,34,34,34,34,34,77,77,35,35,35,35,35,35,36,36,36,36,36,37,37,37,37,37,38,38,38,38,38,39>>,
    <<34,34,34,34,34,34,34,34,77,77,77,77,35,35,35,35,78,36,36,36,36,79,37,37,37,37,37,38,38,38,38,38>>,
    <<76,76,76,34,34,34,34,34,41,41,41,77,77,42,42,42,78,78,43,43,43,79,79,44,44,44,80,80,45,45,45,81>>,
    <<40,40,40,40,40,40,34,34,41,41,41,41,41,41,42,42,42,42,78,43,43,43,43,79,44,44,44,80,80,45,45,45>>,
    <<40,40,40,40,40,40,40,40,83,41,41,41,41,41,41,42,42,42,42,42,43,43,43,43,43,44,44,44,44,80,45,45>>,
    <<40,40,40,40,40,40,40,40,83,83,41,41,41,41,41,41,42,42,42,42,42,43,43,43,43,43,44,44,44,44,44,45>>,
    <<40,40,40,40,40,40,40,40,83,83,83,83,41,41,41,41,84,42,42,42,42,85,43,43,43,43,86,44,44,44,44,44>>,
    <<82,82,82,82,40,40,40,40,47,47,83,83,83,48,48,48,84,84,49,49,49,85,85,50,50,50,86,86,51,51,51,87>>,
    <<46,46,46,46,46,46,46,40,47,47,47,47,47,47,48,48,48,48,84,49,49,49,49,85,50,50,50,86,86,51,51,51>>
  >>,
  <<
    <<52,52,52,234,234,53,53,53,53,53,53,53,17,17,17,54,18,18,18,18,55,19,19,19,19,56,20,20,20,20,57,21>>,
    <<52,52,234,234,234,234,53,53,53,53,53,53,17,17,17,17,54,18,18,18,18,55,19,19,19,56,56,20,20,20,57,57>>,
    <<52,234,234,234,234,234,234,53,53,53,53,53,17,17,17,17,54,18,18,18,18,55,19,19,19,19,56,20,20,20,20,57>>,
    <<234,234,235,235,235,235,235,235,53,53,53,53,53,17,17,17,17,54,18,18,18,18,55,19,19,19,56,56,20,20,20,57>>,
    <<235,235,235,235,235,235,235,235,235,60,53,53,53,53,17,17,17,17,54,18,18,18,55,19,19,19,19,56,20,20,20,57>>,
    <<235,235,235,236,236,236,236,236,236,236,60,60,53,53,17,17,17,17,17,18,18,18,18,55,19,19,19,56,56,20,20,20>>,
    <<58,236,236,236,236,236,236,236,236,236,60,60,60,60,61,61,61,61,17,62,62,18,18,18,55,19,19,19,56,56,20,20>>,
    <<58,58,237,237,237,237,237,237,237,237,237,60,60,60,60,61,61,61,61,62,62,62,62,62,63,63,63,63,63,56,56,20>>,
    <<58,58,58,237,237,237,237,237,237,238,238,238,60,60,60,60,61,61,61,61,61,62,62,62,62,62,63,63,63,63,63,56>>,
    <<58,58,58,58,65,238,238,238,238,238,238,238,60,60,60,60,60,61,61,61,61,61,62,62,62,62,62,63,63,63,63,63>>,
    <<58,58,58,58,65,65,65,239,239,239,239,239,239,24,60,60,60,60,25,25,61,61,61,26,26,62,62,62,27,27,63,63>>,
    <<58,58,58,58,65,65,65,65,23,23,23,23,240,240,24,24,24,60,60,25,25,25,61,61,26,26,26,62,62,27,27,27>>,
    <<22,22,22,22,22,65,65,65,65,23,23,23,23,23,24,24,24,24,24,60,25,25,25,25,61,26,26,26,26,26,27,27>>,
    <<22,22,22,22,22,22,65,65,65,65,65,23,23,23,23,23,24,24,24,24,24,25,25,25,25,25,26,26,26,26,26,27>>,
    <<22,22,22,22,22,22,22,65,65,65,65,65,23,23,23,23,66,24,24,24,24,24,25,25,25,25,25,33,26,26,26,26>>,
    <<64,22,22,22,22,22,22,22,29,65,65,65,65,30,30,66,66,66,31,31,67,67,67,32,32,68,68,68,33,33,69,69>>,
    <<28,28,28,28,22,22,22,22,29,29,29,29,29,65,30,30,30,66,66,31,31,31,67,67,32,32,32,68,68,33,33,33>>,
    <<28,28,28,28,28,28,71,71,71,29,29,29,29,29,29,30,30,30,30,66,31,31,31,31,67,32,32,32,32,68,33,33>>,
    <<28,28,28,28,28,28,28,71,71,71,71,29,29,29,29,29,30,30,30,30,30,31,31,31,31,31,32,32,32,32,32,33>>,
    <<28,28,28,28,28,28,28,71,71,71,71,71,29,29,29,29,72,30,30,30,30,73,31,31,31,31,31,32,32,32,32,32>>,
    <<70,70,28,28,28,28,28,28,71,71,71,71,71,29,36,72,72,72,37,37,73,73,73,38,38,74,74,74,39,39,75,75>>,
    <<34,34,34,34,34,28,28,28,35,35,35,35,35,71,36,36,36,72,72,37,37,37,73,73,38,38,38,74,74,39,39,39>>,
    <<34,34,34,34,34,34,34,77,77,35,35,35,35,35,35,36,36,36,36,72,37,37,37,37,73,38,38,38,38,74,39,39>>,
    <<34,34,34,34,34,34,34,77,77,77,35,35,35,35,35,35,36,36,36,36,36,37,37,37,37,37,38,38,38,38,74,39>>,
    <<34,34,34,34,34,34,34,34,77,77,77,77,35,35,35,35,78,36,36,36,36,79,37,37,37,37,80,38,38,38,38,38>>,
    <<76,76,76,34,34,34,34,34,77,77,77,77,77,35,78,78,78,78,43,43,79,79,79,44,44,80,80,80,45,45,81,81>>,
    <<40,40,40,40,40,76,34,34,41,41,41,41,41,77,42,42,42,78,78,43,43,43,79,79,44,44,44,80,80,45,45,45>>,
    <<40,40,40,40,40,40,40,40,83,41,41,41,41,41,41,42,42,42,42,42,43,43,43,43,79,44,44,44,44,80,45,45>>,
    <<40,40,40,40,40,40,40,40,83,83,41,41,41,41,41,41,42,42,42,42,42,43,43,43,43,43,44,44,44,44,80,45>>,
    <<40,40,40,40,40,40,40,40,83,83,83,83,41,41,41,41,84,42,42,42,42,85,43,43,43,43,86,44,44,44,44,44>>,
    <<82,82,82,82,40,40,40,40,83,83,83,83,83,41,84,84,84,84,49,49,85,85,85,50,50,86,86,86,51,51,87,87>>,
    <<46,46,82,82,82,82,82,40,47,47,47,47,83,83,48,48,48,84,84,49,49,49,85,85,50,50,50,86,86,51,51,51>>
  >>,
  <<
    <<52,52,52,52,52,53,53,53,53,53,53,53,53,17,54,54,54,54,18,18,55,55,19,19,19,56,56,20,20,20,57,57>>,
    <<52,52,52,52,234,234,53,53,53,53,53,53,53,17,17,54,54,54,18,18,55,55,55,19,19,56,56,56,20,20,57,57>>,
    <<52,52,52,235,235,235,235,53,53,53,53,53,53,53,17,54,54,54,18,18,18,55,55,19,19,19,56,56,20,20,57,57>>,
    <<52,52,235,235,235,235,235,235,53,53,53,53,53,53,17,17,54,54,54,18,18,55,55,55,19,19,56,56,20,20,20,57>>,
    <<52,235,235,235,235,235,235,235,236,53,53,53,53,53,53,17,17,54,54,54,18,18,55,55,19,19,19,56,56,20,20,57>>,
    <<236,236,236,236,236,236,236,236,236,236,60,60,53,53,53,17,17,17,54,54,18,18,18,55,55,19,19,56,56,56,20,20>>,
    <<58,236,236,236,236,236,236,236,237,237,60,60,60,60,61,61,61,61,17,54,54,18,18,55,55,55,19,19,56,56,56,20>>,
    <<58,58,237,237,237,237,237,237,237,237,237,60,60,60,60,61,61,61,61,61,62,62,62,62,63,63,63,63,63,56,56,56>>,
    <<58,58,58,237,237,237,238,238,238,238,238,238,60,60,60,60,61,61,61,61,61,62,62,62,62,62,63,63,63,63,63,56>>,
    <<58,58,58,58,238,238,238,238,238,238,238,238,60,60,60,60,60,61,61,61,61,61,62,62,62,62,62,63,63,63,63,63>>,
    <<58,58,58,58,58,65,239,239,239,239,239,239,239,60,60,60,60,60,61,61,61,61,61,62,62,62,62,62,63,63,63,63>>,
    <<58,58,58,58,58,65,65,65,239,239,240,240,240,240,24,60,60,60,60,25,61,61,61,61,26,62,62,62,62,27,63,63>>,
    <<58,58,58,58,58,65,65,65,65,65,23,23,240,240,59,24,24,24,60,60,25,25,25,61,61,26,26,26,62,62,27,27>>,
    <<22,22,22,22,22,22,65,65,65,65,65,23,23,23,23,66,24,24,24,24,60,25,25,25,25,61,26,26,26,26,26,27>>,
    <<64,22,22,22,22,22,65,65,65,65,65,65,23,23,66,66,66,24,24,24,67,67,25,25,25,25,25,69,26,26,26,26>>,
    <<64,64,64,22,22,22,22,65,65,65,65,65,65,66,66,66,66,66,31,67,67,67,67,32,68,68,68,68,33,69,69,69>>,
    <<64,64,64,64,22,22,22,22,29,65,65,65,65,65,30,66,66,66,66,31,31,67,67,67,32,32,68,68,68,33,33,69>>,
    <<28,28,28,28,28,28,71,71,71,29,29,29,29,65,65,30,30,30,66,66,31,31,31,67,67,32,32,32,68,68,33,33>>,
    <<28,28,28,28,28,28,71,71,71,71,71,29,29,29,29,72,30,30,30,30,66,31,31,31,31,67,32,32,32,32,68,33>>,
    <<28,28,28,28,28,28,28,71,71,71,71,71,29,29,29,72,72,30,30,30,73,73,31,31,31,31,74,32,32,32,32,32>>,
    <<70,70,70,28,28,28,28,28,71,71,71,71,71,29,72,72,72,72,37,73,73,73,73,38,74,74,74,74,39,75,75,75>>,
    <<70,70,70,70,70,28,28,28,35,71,71,71,71,71,36,36,72,72,72,37,37,73,73,73,38,38,74,74,74,39,39,75>>,
    <<34,34,34,34,34,34,34,77,77,35,35,35,35,71,71,36,36,36,72,72,37,37,37,73,73,38,38,38,74,74,39,39>>,
    <<34,34,34,34,34,34,34,77,77,77,77,35,35,35,35,35,36,36,36,36,72,37,37,37,37,73,38,38,38,38,74,39>>,
    <<34,34,34,34,34,34,34,34,77,77,77,77,35,35,35,78,78,36,36,36,79,79,37,37,37,37,80,38,38,38,38,74>>,
    <<76,76,76,76,34,34,34,34,77,77,77,77,77,35,78,78,78,78,43,79,79,79,79,44,80,80,80,80,45,81,81,81>>,
    <<76,76,76,76,76,76,34,34,77,77,77,77,77,77,42,78,78,78,78,43,43,79,79,79,44,44,80,80,80,45,45,81>>,
    <<40,40,40,40,40,40,40,40,83,41,41,41,41,41,77,42,42,42,78,78,43,43,43,79,79,44,44,44,80,80,45,45>>,
    <<40,40,40,40,40,40,40,40,83,83,41,41,41,41,41,41,42,42,42,42,42,43,43,43,43,79,44,44,44,44,80,45>>,
    <<40,40,40,40,40,40,40,40,83,83,83,83,41,41,41,41,84,42,42,42,85,85,43,43,43,43,86,44,44,44,44,80>>,
    <<82,82,82,82,40,40,40,40,83,83,83,83,83,84,84,84,84,84,85,85,85,85,85,50,86,86,86,86,51,87,87,87>>,
    <<82,82,82,82,82,82,82,40,83,83,83,83,83,83,48,84,84,84,84,49,49,85,85,85,50,50,86,86,86,51,51,87>>
  >>,
  <<
    <<52,52,52,52,52,89,53,53,53,53,53,53,53,53,54,54,54,54,54,55,55,55,55,19,19,56,56,56,20,20,57,57>>,
    <<52,52,52,52,52,52,53,53,53,53,53,53,53,53,54,54,54,54,54,18,55,55,55,55,19,56,56,56,20,20,57,57>>,
    <<52,52,52,52,52,235,53,53,53,53,53,53,53,53,53,54,54,54,54,18,55,55,55,55,19,56,56,56,56,20,57,57>>,
    <<52,52,52,52,235,235,235,235,53,53,53,53,53,53,53,54,54,54,54,54,18,55,55,55,55,19,56,56,56,20,20,57>>,
    <<52,52,52,236,236,236,236,236,236,53,53,53,53,53,53,53,54,54,54,54,54,55,55,55,55,19,56,56,56,56,20,57>>,
    <<52,52,236,236,236,236,236,236,236,96,60,53,53,53,53,53,17,54,54,54,54,18,55,55,55,55,19,56,56,56,56,20>>,
    <<58,236,236,237,237,237,237,237,237,237,60,60,60,60,61,61,61,61,54,54,54,54,18,55,55,55,55,19,56,56,56,20>>,
    <<58,58,237,237,237,237,237,237,237,237,237,60,60,60,60,61,61,61,61,61,62,62,62,62,55,63,63,63,63,56,56,56>>,
    <<58,58,58,58,238,238,238,238,238,238,238,238,60,60,60,60,61,61,61,61,61,62,62,62,62,62,63,63,63,63,63,56>>,
    <<58,58,58,58,58,238,238,238,238,238,238,239,60,60,60,60,60,61,61,61,61,61,62,62,62,62,62,63,63,63,63,63>>,
    <<58,58,58,58,58,101,239,239,239,239,239,239,239,60,60,60,60,60,61,61,61,61,61,62,62,62,62,62,63,63,63,63>>,
    <<58,58,58,58,58,65,65,65,240,240,240,240,240,240,60,60,60,60,60,61,61,61,61,61,62,62,62,62,62,63,63,63>>,
    <<58,58,58,58,58,65,65,65,65,65,240,240,59,59,59,60,60,60,60,60,25,61,61,61,61,26,62,62,62,62,27,63>>,
    <<58,58,58,58,58,65,65,65,65,65,65,23,66,66,241,241,24,24,60,60,60,25,25,25,61,61,26,26,26,62,62,27>>,
    <<64,64,64,22,22,22,65,65,65,65,65,65,66,66,66,66,66,67,67,67,67,67,68,68,68,25,61,69,69,26,26,26>>,
    <<64,64,64,64,22,22,22,65,65,65,65,65,65,66,66,66,66,66,67,67,67,67,67,68,68,68,68,68,69,69,69,69>>,
    <<64,64,64,64,64,22,22,22,65,65,65,65,65,65,66,66,66,66,66,67,67,67,67,67,32,68,68,68,68,33,69,69>>,
    <<64,64,64,64,64,64,71,71,71,71,65,65,65,65,65,30,66,66,66,66,31,31,67,67,67,32,32,68,68,68,33,33>>,
    <<28,28,28,28,28,64,71,71,71,71,71,29,29,65,65,65,30,30,30,66,66,31,31,31,67,67,32,32,32,68,68,33>>,
    <<70,28,28,28,28,28,28,71,71,71,71,71,29,72,72,72,72,30,30,73,73,73,31,31,31,74,67,32,32,32,32,68>>,
    <<70,70,70,70,28,28,28,71,71,71,71,71,71,72,72,72,72,72,73,73,73,73,73,74,74,74,74,74,75,75,75,75>>,
    <<70,70,70,70,70,70,28,28,71,71,71,71,71,71,72,72,72,72,72,73,73,73,73,73,38,74,74,74,74,39,75,75>>,
    <<70,70,70,70,70,70,70,77,77,71,71,71,71,71,71,36,72,72,72,72,37,37,73,73,73,38,38,74,74,74,39,39>>,
    <<34,34,34,34,34,34,34,77,77,77,77,35,35,35,71,71,36,36,36,72,72,37,37,37,73,73,38,38,38,74,74,39>>,
    <<34,34,34,34,34,34,34,77,77,77,77,77,35,35,78,78,78,36,36,36,79,79,37,37,37,80,80,38,38,38,38,74>>,
    <<76,76,76,76,34,34,34,34,77,77,77,77,77,78,78,78,78,78,79,79,79,79,79,80,80,80,80,80,81,81,81,81>>,
    <<76,76,76,76,76,76,76,34,77,77,77,77,77,77,78,78,78,78,78,79,79,79,79,79,44,80,80,80,80,45,81,81>>,
    <<76,76,76,76,76,76,76,76,83,41,77,77,77,77,77,42,78,78,78,78,43,43,79,79,79,44,44,80,80,80,45,45>>,
    <<40,40,40,40,40,40,40,40,83,83,41,41,41,41,41,77,42,42,42,78,78,43,43,43,79,79,44,44,44,80,80,45>>,
    <<40,40,40,40,40,40,40,40,83,83,83,83,41,41,41,84,84,42,42,42,85,85,43,43,43,86,86,44,44,44,44,80>>,
    <<82,82,82,82,40,40,40,40,83,83,83,83,83,84,84,84,84,84,85,85,85,85,85,86,86,86,86,86,87,87,87,87>>,
    <<82,82,82,82,82,82,82,40,83,83,83,83,83,83,84,84,84,84,84,85,85,85,85,85,50,86,86,86,86,51,87,87>>
  >>,
  <<
    <<52,52,52,52,52,89,89,53,53,53,53,53,53,53,54,54,54,54,54,55,55,55,55,55,56,56,56,56,56,20,57,57>>,
    <<52,52,52,52,52,52,89,53,53,53,53,53,53,53,54,54,54,54,54,54,55,55,55,55,55,56,56,56,56,20,57,57>>,
    <<52,52,52,52,52,52,89,53,53,53,53,53,53,53,53,54,54,54,54,54,55,55,55,55,55,56,56,56,56,56,57,57>>,
    <<52,52,52,52,52,52,236,53,53,53,53,53,53,53,53,54,54,54,54,54,55,55,55,55,55,56,56,56,56,56,20,57>>,
    <<52,52,52,52,52,236,236,236,96,53,53,53,53,53,53,53,54,54,54,54,54,55,55,55,55,55,56,56,56,56,56,57>>,
    <<52,52,52,52,236,236,236,236,237,96,96,53,53,53,53,53,53,54,54,54,54,54,55,55,55,55,55,56,56,56,56,20>>,
    <<94,52,52,237,237,237,237,237,237,237,96,96,96,53,53,53,53,61,54,54,54,54,54,55,55,55,55,55,56,56,56,56>>,
    <<58,58,58,237,237,237,237,237,237,238,238,60,60,60,60,61,61,61,61,61,62,62,62,62,55,55,63,63,63,56,56,56>>,
    <<58,58,58,58,238,238,238,238,238,238,238,60,60,60,60,60,61,61,61,61,61,62,62,62,62,62,63,63,63,63,63,56>>,
    <<58,58,58,58,58,238,238,238,239,239,239,239,60,60,60,60,60,61,61,61,61,61,62,62,62,62,62,63,63,63,63,63>>,
    <<58,58,58,58,58,101,239,239,239,239,239,239,239,60,60,60,60,60,61,61,61,61,61,62,62,62,62,62,63,63,63,63>>,
    <<58,58,58,58,58,58,101,240,240,240,240,240,240,240,60,60,60,60,60,61,61,61,61,61,62,62,62,62,62,63,63,63>>,
    <<58,58,58,58,58,58,65,65,65,240,59,59,59,59,59,60,60,60,60,60,61,61,61,61,61,62,62,62,62,62,63,63>>,
    <<58,58,58,58,58,58,65,65,65,65,65,241,241,241,241,241,60,60,60,60,60,61,61,61,61,61,26,62,62,62,62,63>>,
    <<64,64,64,58,58,58,65,65,65,65,65,65,66,66,66,66,66,67,67,67,67,60,68,68,68,61,61,69,69,26,62,62>>,
    <<64,64,64,64,64,22,65,65,65,65,65,65,65,66,66,66,66,66,67,67,67,67,67,68,68,68,68,68,69,69,69,69>>,
    <<64,64,64,64,64,64,22,65,65,65,65,65,65,65,66,66,66,66,66,67,67,67,67,67,68,68,68,68,68,69,69,69>>,
    <<64,64,64,64,64,64,64,71,71,65,65,65,65,65,65,66,66,66,66,66,67,67,67,67,67,68,68,68,68,68,33,69>>,
    <<64,64,64,64,64,64,64,71,71,71,71,65,65,65,65,65,66,66,66,66,66,31,67,67,67,67,32,32,68,68,68,33>>,
    <<70,70,70,28,64,64,64,71,71,71,71,71,72,72,72,72,72,73,73,73,73,73,74,74,74,67,67,75,75,32,68,68>>,
    <<70,70,70,70,70,28,28,71,71,71,71,71,71,72,72,72,72,72,73,73,73,73,73,74,74,74,74,74,75,75,75,75>>,
    <<70,70,70,70,70,70,28,28,71,71,71,71,71,71,72,72,72,72,72,73,73,73,73,73,74,74,74,74,74,75,75,75>>,
    <<70,70,70,70,70,70,70,70,77,71,71,71,71,71,71,72,72,72,72,72,73,73,73,73,73,38,74,74,74,74,39,75>>,
    <<70,70,70,70,70,70,70,77,77,77,77,71,71,71,71,71,36,72,72,72,72,37,73,73,73,73,38,38,74,74,74,39>>,
    <<76,34,34,34,34,34,34,77,77,77,77,77,35,78,78,78,78,36,36,79,79,79,37,37,80,73,73,38,38,38,74,74>>,
    <<76,76,76,76,76,34,34,77,77,77,77,77,77,78,78,78,78,78,79,79,79,79,79,80,80,80,80,80,81,81,81,81>>,
    <<76,76,76,76,76,76,76,34,77,77,77,77,77,77,78,78,78,78,78,79,79,79,79,79,80,80,80,80,80,81,81,81>>,
    <<76,76,76,76,76,76,76,76,76,77,77,77,77,77,77,78,78,78,78,78,79,79,79,79,79,44,80,80,80,80,45,81>>,
    <<76,76,76,76,76,76,76,76,83,83,41,77,77,77,77,77,42,78,78,78,78,43,43,79,79,79,44,44,80,80,80,45>>,
    <<40,40,40,40,40,40,40,40,83,83,83,83,41,41,84,84,84,42,42,85,85,85,43,43,43,86,79,44,44,44,80,80>>,
    <<82,82,82,82,82,40,40,40,83,83,83,83,83,84,84,84,84,84,85,85,85,85,85,86,86,86,86,86,87,87,87,87>>,
    <<82,82,82,82,82,82,82,40,83,83,83,83,83,83,84,84,84,84,84,85,85,85,85,85,86,86,86,86,86,87,87,87>>
  >>,
  <<
    <<52,52,52,52,52,52,89,89,53,53,53,53,53,53,54,54,54,54,54,54,55,55,55,55,55,56,56,56,56,56,57,57>>,
    <<52,52,52,52,52,52,89,89,53,53,53,53,53,53,53,54,54,54,54,54,55,55,55,55,55,56,56,56,56,56,57,57>>,
    <<52,52,52,52,52,52,89,89,53,53,53,53,53,53,53,54,54,54,54,54,55,55,55,55,55,56,56,56,56,56,57,57>>,
    <<52,52,52,52,52,52,52,89,53,53,53,53,53,53,53,53,54,54,54,54,54,55,55,55,55,55,56,56,56,56,56,57>>,
    <<52,52,52,52,52,52,95,95,96,53,53,53,53,53,53,53,54,54,54,54,54,55,55,55,55,55,56,56,56,56,56,57>>,
    <<52,52,52,52,52,95,95,95,96,96,96,53,53,53,53,53,53,54,54,54,54,54,55,55,55,55,55,56,56,56,56,56>>,
    <<94,52,52,52,95,95,95,237,237,96,96,96,96,53,53,53,53,53,54,54,54,54,54,55,55,55,55,55,56,56,56,56>>,
    <<94,94,94,95,95,238,238,238,238,238,96,96,96,96,96,97,97,97,97,97,62,62,62,62,55,55,55,63,63,56,56,56>>,
    <<58,58,58,58,238,238,238,238,238,238,238,60,60,60,60,60,61,61,61,61,61,62,62,62,62,62,63,63,63,63,63,56>>,
    <<58,58,58,58,58,239,239,239,239,239,239,239,60,60,60,60,60,61,61,61,61,61,62,62,62,62,62,63,63,63,63,63>>,
    <<58,58,58,58,58,101,239,239,239,239,239,239,240,60,60,60,60,60,61,61,61,61,61,62,62,62,62,62,63,63,63,63>>,
    <<58,58,58,58,58,58,101,101,240,240,240,240,240,240,60,60,60,60,60,61,61,61,61,61,62,62,62,62,62,63,63,63>>,
    <<58,58,58,58,58,58,101,101,101,59,59,59,59,59,59,60,60,60,60,60,61,61,61,61,61,62,62,62,62,62,63,63>>,
    <<58,58,58,58,58,58,65,65,65,65,241,241,241,241,241,241,60,60,60,60,60,61,61,61,61,61,62,62,62,62,62,63>>,
    <<64,58,58,58,58,58,58,65,65,65,65,65,66,66,242,242,242,67,67,67,60,60,68,68,61,61,61,69,69,62,62,62>>,
    <<64,64,64,64,64,58,58,65,65,65,65,65,65,66,66,66,66,66,67,67,67,67,67,68,68,68,68,68,69,69,69,69>>,
    <<64,64,64,64,64,64,64,107,65,65,65,65,65,65,66,66,66,66,66,67,67,67,67,67,68,68,68,68,68,69,69,69>>,
    <<64,64,64,64,64,64,64,107,107,65,65,65,65,65,65,66,66,66,66,66,67,67,67,67,67,68,68,68,68,68,69,69>>,
    <<64,64,64,64,64,64,64,71,71,71,65,65,65,65,65,65,66,66,66,66,66,67,67,67,67,67,68,68,68,68,68,33>>,
    <<70,64,64,64,64,64,64,71,71,71,71,71,65,72,72,72,72,73,73,66,66,66,74,74,67,67,67,75,75,68,68,68>>,
    <<70,70,70,70,70,64,64,71,71,71,71,71,71,72,72,72,72,72,73,73,73,73,73,74,74,74,74,74,75,75,75,75>>,
    <<70,70,70,70,70,70,70,71,71,71,71,71,71,71,72,72,72,72,72,73,73,73,73,73,74,74,74,74,74,75,75,75>>,
    <<70,70,70,70,70,70,70,70,113,71,71,71,71,71,71,72,72,72,72,72,73,73,73,73,73,74,74,74,74,74,75,75>>,
    <<70,70,70,70,70,70,70,70,77,77,71,71,71,71,71,71,72,72,72,72,72,73,73,73,73,73,38,74,74,74,74,39>>,
    <<70,70,70,70,70,70,70,77,77,77,77,77,71,71,71,78,78,72,72,72,72,72,37,73,73,73,73,38,81,74,74,74>>,
    <<76,76,76,76,76,34,34,77,77,77,77,77,77,78,78,78,78,78,79,79,79,79,79,80,80,80,80,80,81,81,81,81>>,
    <<76,76,76,76,76,76,76,34,77,77,77,77,77,77,78,78,78,78,78,79,79,79,79,79,80,80,80,80,80,81,81,81>>,
    <<76,76,76,76,76,76,76,76,76,77,77,77,77,77,77,78,78,78,78,78,79,79,79,79,79,80,80,80,80,80,81,81>>,
    <<76,76,76,76,76,76,76,76,119,119,77,77,77,77,77,77,78,78,78,78,78,79,79,79,79,79,44,80,80,80,80,45>>,
    <<76,76,76,76,76,76,76,76,83,83,83,83,77,77,77,77,84,42,78,78,78,78,43,79,79,79,79,44,44,80,80,80>>,
    <<82,82,82,82,82,40,40,83,83,83,83,83,83,84,84,84,84,84,85,85,85,85,85,86,86,86,86,86,87,87,87,87>>,
    <<82,82,82,82,82,82,82,82,83,83,83,83,83,83,84,84,84,84,84,85,85,85,85,85,86,86,86,86,86,87,87,87>>
  >>,
  <<
    <<52,52,52,52,52,52,89,89,89,53,53,53,53,53,53,54,54,54,54,54,55,55,55,55,55,56,56,56,56,56,57,57>>,
    <<52,52,52,52,52,52,89,89,89,53,53,53,53,53,53,54,54,54,54,54,55,55,55,55,55,56,56,56,56,56,57,57>>,
    <<52,52,52,52,52,52,52,89,89,53,53,53,53,53,53,53,54,54,54,54,54,55,55,55,55,56,56,56,56,56,57,57>>,
    <<52,52,52,52,52,52,52,89,89,89,53,53,53,53,53,53,54,54,54,54,54,55,55,55,55,55,56,56,56,56,56,57>>,
    <<52,52,52,52,52,52,52,95,89,89,53,53,53,53,53,53,53,54,54,54,54,54,55,55,55,55,56,56,56,56,56,57>>,
    <<52,52,52,52,52,52,95,95,95,96,96,53,53,53,53,53,53,54,54,54,54,54,55,55,55,55,55,56,56,56,56,56>>,
    <<52,52,52,52,52,95,95,95,95,96,96,96,96,53,53,53,53,53,54,54,54,54,54,55,55,55,55,55,56,56,56,56>>,
    <<94,94,94,52,95,95,95,95,95,95,96,96,96,96,96,97,97,97,97,97,54,98,98,98,55,55,55,55,99,56,56,56>>,
    <<94,94,94,94,95,95,95,95,95,95,95,96,96,96,96,96,97,97,97,97,97,98,98,98,98,98,99,63,63,63,63,56>>,
    <<94,94,58,58,58,95,95,239,239,239,239,239,60,60,60,60,60,61,61,61,61,61,62,62,62,62,62,63,63,63,63,63>>,
    <<58,58,58,58,58,101,239,239,239,240,240,240,240,60,60,60,60,60,61,61,61,61,61,62,62,62,62,62,63,63,63,63>>,
    <<58,58,58,58,58,58,101,101,240,240,240,240,240,240,60,60,60,60,60,61,61,61,61,61,62,62,62,62,62,63,63,63>>,
    <<58,58,58,58,58,58,101,101,101,59,59,59,59,241,241,60,60,60,60,60,61,61,61,61,61,62,62,62,62,62,63,63>>,
    <<58,58,58,58,58,58,58,101,101,101,241,241,241,241,241,242,60,60,60,60,60,61,61,61,61,61,62,62,62,62,62,63>>,
    <<58,58,58,58,58,58,58,65,65,65,65,65,242,242,242,242,242,60,60,60,60,60,68,61,61,61,61,69,62,62,62,62>>,
    <<64,64,64,64,58,58,58,65,65,65,65,65,65,66,66,66,66,66,67,67,67,67,67,68,68,68,68,68,69,69,69,69>>,
    <<64,64,64,64,64,64,107,107,65,65,65,65,65,65,66,66,66,66,66,67,67,67,67,67,68,68,68,68,68,69,69,69>>,
    <<64,64,64,64,64,64,64,107,107,65,65,65,65,65,65,66,66,66,66,66,67,67,67,67,67,68,68,68,68,68,69,69>>,
    <<64,64,64,64,64,64,64,107,107,107,65,65,65,65,65,65,66,66,66,66,66,67,67,67,67,67,68,68,68,68,68,69>>,
    <<64,64,64,64,64,64,64,71,71,71,71,71,65,65,65,65,65,66,66,66,66,66,74,67,67,67,67,75,68,68,68,68>>,
    <<70,70,70,70,64,64,64,71,71,71,71,71,71,72,72,72,72,72,73,73,73,73,73,74,74,74,74,110,75,75,75,75>>,
    <<70,70,70,70,70,70,70,71,71,71,71,71,71,71,72,72,72,72,72,73,73,73,73,73,74,74,74,74,74,75,75,75>>,
    <<70,70,70,70,70,70,70,70,113,71,71,71,71,71,71,72,72,72,72,72,73,73,73,73,73,74,74,74,74,74,75,75>>,
    <<70,70,70,70,70,70,70,70,113,113,71,71,71,71,71,71,72,72,72,72,72,73,73,73,73,73,74,74,74,74,74,75>>,
    <<70,70,70,70,70,70,70,70,77,77,77,113,71,71,71,71,71,72,72,72,72,72,73,73,73,73,73,81,74,74,74,74>>,
    <<76,76,76,76,76,70,70,70,77,77,77,77,77,78,78,78,78,78,79,79,79,79,79,80,80,80,80,116,81,81,81,81>>,
    <<76,76,76,76,76,76,76,77,77,77,77,77,77,77,78,78,78,78,78,79,79,79,79,79,80,80,80,80,80,81,81,81>>,
    <<76,76,76,76,76,76,76,76,77,77,77,77,77,77,77,78,78,78,78,78,79,79,79,79,79,80,80,80,80,80,81,81>>,
    <<76,76,76,76,76,76,76,76,119,119,77,77,77,77,77,77,78,78,78,78,78,79,79,79,79,79,80,80,80,80,80,81>>,
    <<76,76,76,76,76,76,76,76,119,119,119,119,77,77,77,77,77,78,78,78,78,78,79,79,79,79,79,44,80,80,80,80>>,
    <<82,82,82,82,82,76,76,83,83,83,83,83,83,84,84,84,84,84,85,85,85,85,85,86,86,86,86,122,87,87,87,87>>,
    <<82,82,82,82,82,82,82,83,83,83,83,83,83,83,84,84,84,84,84,85,85,85,85,85,86,86,86,86,86,87,87,87>>
  >>,
  <<
    <<52,52,52,52,52,52,89,89,89,89,89,53,53,53,53,54,54,54,54,54,55,55,55,55,55,56,56,56,56,56,93,57>>,
    <<52,52,52,52,52,52,52,89,89,89,89,53,53,53,53,53,54,54,54,54,91,55,55,55,55,92,56,56,56,56,93,57>>,
    <<52,52,52,52,52,52,52,89,89,89,89,53,53,53,53,53,54,54,54,54,54,55,55,55,55,55,56,56,56,56,93,57>>,
    <<52,52,52,52,52,52,52,89,89,89,89,53,53,53,53,53,54,54,54,54,54,55,55,55,55,55,56,56,56,56,56,57>>,
    <<52,52,52,52,52,52,52,52,89,89,89,53,53,53,53,53,53,54,54,54,54,54,55,55,55,55,55,56,56,56,56,93>>,
    <<52,52,52,52,52,52,52,95,95,96,96,53,53,53,53,53,53,54,54,54,54,54,55,55,55,55,55,56,56,56,56,56>>,
    <<52,52,52,52,52,52,95,95,95,96,96,96,96,53,53,53,53,53,54,54,54,54,54,55,55,55,55,55,56,56,56,56>>,
    <<94,94,52,52,52,95,95,95,95,95,96,96,96,96,96,97,97,97,97,97,54,98,98,98,55,55,55,55,99,56,56,56>>,
    <<94,94,94,94,95,95,95,95,95,95,95,96,96,96,96,96,97,97,97,97,97,98,98,98,98,98,99,99,99,99,99,56>>,
    <<94,94,94,94,94,95,95,95,95,95,95,95,96,96,96,96,96,97,97,97,97,97,98,98,98,98,98,99,99,99,99,99>>,
    <<94,94,94,58,58,101,95,95,95,95,95,240,240,96,96,96,60,96,61,61,61,61,97,62,62,62,62,62,63,63,63,63>>,
    <<58,58,58,58,58,58,101,101,240,240,240,59,59,59,60,60,60,60,60,61,61,61,61,61,62,62,62,62,62,63,63,63>>,
    <<58,58,58,58,58,58,101,101,101,59,241,241,241,241,241,60,60,60,60,60,61,61,61,61,61,62,62,62,62,62,63,63>>,
    <<58,58,58,58,58,58,58,101,101,101,241,241,242,242,242,242,60,60,60,60,60,61,61,61,61,61,62,62,62,62,62,63>>,
    <<58,58,58,58,58,58,58,101,101,101,101,101,242,242,242,242,242,60,60,60,60,60,61,61,61,61,61,62,62,62,62,62>>,
    <<100,100,58,58,58,58,58,101,101,101,101,101,101,243,243,243,243,243,67,67,67,103,103,68,68,68,104,104,69,69,69,105>>,
    <<64,64,64,64,64,64,58,107,65,65,65,65,65,65,66,66,66,66,66,67,67,67,67,67,68,68,68,68,68,69,69,69>>,
    <<64,64,64,64,64,64,64,107,107,65,65,65,65,65,65,66,66,66,66,66,67,67,67,67,67,68,68,68,68,68,69,69>>,
    <<64,64,64,64,64,64,64,107,107,107,65,65,65,65,65,65,66,66,66,66,66,67,67,67,67,67,68,68,68,68,68,69>>,
    <<64,64,64,64,64,64,64,64,107,107,107,107,65,65,65,65,65,66,66,66,66,66,67,67,67,67,67,68,68,68,68,68>>,
    <<106,106,106,64,64,64,64,64,71,71,107,107,107,72,72,72,108,108,73,73,73,109,109,74,74,74,110,110,75,75,75,111>>,
    <<70,70,70,70,70,70,64,64,71,71,71,71,71,71,72,72,72,72,72,73,73,73,73,73,74,74,74,74,110,75,75,75>>,
    <<70,70,70,70,70,70,70,113,113,71,71,71,71,71,71,72,72,72,72,72,73,73,73,73,73,74,74,74,74,74,75,75>>,
    <<70,70,70,70,70,70,70,70,113,113,71,71,71,71,71,71,72,72,72,72,72,73,73,73,73,73,74,74,74,74,74,75>>,
    <<70,70,70,70,70,70,70,70,113,113,113,113,71,71,71,71,71,72,72,72,72,72,73,73,73,73,73,74,74,74,74,74>>,
    <<112,112,112,112,70,70,70,70,77,77,113,113,113,78,78,78,114,114,79,79,79,115,115,80,80,80,116,116,81,81,81,117>>,
    <<76,76,76,76,76,76,76,70,77,77,77,77,77,77,78,78,78,78,78,79,79,79,79,79,80,80,80,80,116,81,81,81>>,
    <<76,76,76,76,76,76,76,76,77,77,77,77,77,77,77,78,78,78,78,78,79,79,79,79,79,80,80,80,80,80,81,81>>,
    <<76,76,76,76,76,76,76,76,119,119,77,77,77,77,77,77,78,78,78,78,78,79,79,79,79,79,80,80,80,80,80,81>>,
    <<76,76,76,76,76,76,76,76,119,119,119,119,77,77,77,77,77,78,78,78,78,78,79,79,79,79,79,80,80,80,80,80>>,
    <<118,118,118,118,76,76,76,76,119,119,119,119,119,84,84,120,120,120,85,85,85,121,121,86,86,86,122,122,87,87,87,123>>,
    <<82,82,82,82,82,82,82,83,83,83,83,83,83,83,84,84,84,84,84,85,85,85,85,85,86,86,86,86,122,87,87,87>>
  >>,
  <<
    <<52,52,52,52,52,52,52,89,89,89,89,89,53,53,53,90,90,54,54,54,91,91,55,55,55,92,92,56,56,56,93,93>>,
    <<52,52,52,52,52,52,52,89,89,89,89,89,53,53,53,90,90,54,54,54,91,91,55,55,55,92,92,56,56,56,93,93>>,
    <<52,52,52,52,52,52,52,89,89,89,89,89,53,53,53,53,90,54,54,54,54,91,55,55,55,92,92,56,56,56,93,93>>,
    <<52,52,52,52,52,52,52,89,89,89,89,89,53,53,53,53,90,54,54,54,54,91,55,55,55,55,92,56,56,56,56,93>>,
    <<52,52,52,52,52,52,52,52,89,89,89,89,53,53,53,53,53,54,54,54,54,54,91,55,55,55,92,92,56,56,56,93>>,
    <<52,52,52,52,52,52,52,52,95,132,89,89,53,53,53,53,53,53,54,54,54,54,91,55,55,55,55,92,56,56,56,56>>,
    <<52,52,52,52,52,52,52,95,95,95,96,96,96,53,53,53,53,53,54,54,54,54,54,91,55,55,55,55,92,56,56,56>>,
    <<94,94,52,52,52,52,95,95,95,95,96,96,96,96,96,53,97,97,97,97,54,54,98,98,55,55,55,55,99,56,56,56>>,
    <<94,94,94,94,95,95,95,95,95,95,95,96,96,96,96,96,97,97,97,97,97,98,98,98,98,98,99,99,99,99,99,56>>,
    <<94,94,94,94,94,95,95,95,95,95,95,95,96,96,96,96,96,97,97,97,97,97,98,98,98,98,98,99,99,99,99,99>>,
    <<94,94,94,94,94,137,95,95,95,95,95,95,95,96,96,96,96,96,97,97,97,97,97,98,98,98,98,98,99,99,99,99>>,
    <<94,94,94,94,94,58,101,95,95,95,95,95,95,95,96,96,96,96,96,97,97,97,97,97,98,98,98,98,98,99,99,99>>,
    <<58,58,58,58,58,58,101,101,101,241,241,241,241,241,241,60,60,60,60,60,61,61,61,61,61,62,62,62,62,62,63,63>>,
    <<58,58,58,58,58,58,58,101,101,101,101,242,242,242,242,242,60,60,60,60,60,61,61,61,61,61,62,62,62,62,62,63>>,
    <<58,58,58,58,58,58,58,101,101,101,101,101,242,242,242,242,243,60,60,60,60,60,61,61,61,61,61,105,62,62,62,62>>,
    <<100,100,100,58,58,58,58,101,101,101,101,101,101,243,243,243,243,243,103,103,103,103,103,104,104,104,104,104,105,105,105,105>>,
    <<100,100,100,100,100,58,58,58,101,101,101,101,101,101,244,244,244,244,244,67,67,103,103,103,68,68,104,104,104,69,69,105>>,
    <<64,64,64,64,64,64,64,107,107,65,65,65,65,65,65,66,66,66,66,66,67,67,67,67,67,68,68,68,68,104,69,69>>,
    <<64,64,64,64,64,64,64,107,107,107,107,65,65,65,65,65,66,66,66,66,66,67,67,67,67,67,68,68,68,68,68,69>>,
    <<64,64,64,64,64,64,64,107,107,107,107,107,65,65,65,65,108,66,66,66,66,66,67,67,67,67,67,68,68,68,68,68>>,
    <<106,106,106,64,64,64,64,64,107,107,107,107,107,108,108,108,108,108,109,109,109,109,109,110,110,110,110,110,75,111,111,111>>,
    <<106,106,106,106,106,106,64,64,107,107,107,107,107,107,72,72,108,108,108,73,73,109,109,109,74,74,110,110,110,75,75,111>>,
    <<70,70,70,70,70,70,70,113,113,71,71,71,71,71,71,72,72,72,72,72,73,73,73,73,109,74,74,74,74,110,75,75>>,
    <<70,70,70,70,70,70,70,70,113,113,71,71,71,71,71,71,72,72,72,72,72,73,73,73,73,73,74,74,74,74,74,75>>,
    <<70,70,70,70,70,70,70,70,113,113,113,113,71,71,71,71,114,72,72,72,72,115,73,73,73,73,73,74,74,74,74,74>>,
    <<112,112,112,112,70,70,70,70,113,113,113,113,113,114,114,114,114,114,115,115,115,115,115,80,116,116,116,116,81,117,117,117>>,
    <<112,112,112,112,112,112,112,70,113,113,113,113,113,113,78,78,114,114,114,79,79,115,115,115,80,80,116,116,116,81,81,117>>,
    <<76,76,76,76,76,76,76,76,77,77,77,77,77,77,77,78,78,78,78,78,79,79,79,79,115,80,80,80,80,116,81,81>>,
    <<76,76,76,76,76,76,76,76,119,119,77,77,77,77,77,77,78,78,78,78,78,79,79,79,79,79,80,80,80,80,80,81>>,
    <<76,76,76,76,76,76,76,76,119,119,119,119,77,77,77,77,120,78,78,78,78,121,79,79,79,79,79,80,80,80,80,80>>,
    <<118,118,118,118,76,76,76,76,119,119,119,119,119,120,120,120,120,120,121,121,121,121,121,86,122,122,122,122,87,123,123,123>>,
    <<118,118,118,118,118,118,118,76,119,119,119,119,119,119,84,84,120,120,120,85,85,121,121,121,86,86,122,122,122,87,87,123>>
  >>,
  <<
    <<88,88,52,52,52,52,52,89,89,89,89,89,89,53,53,90,90,90,54,54,91,91,91,55,55,92,92,92,56,56,93,93>>,
    <<88,88,52,52,52,52,52,89,89,89,89,89,89,53,53,90,90,90,54,54,91,91,91,55,55,92,92,92,56,56,93,93>>,
    <<88,88,52,52,52,52,52,89,89,89,89,89,89,53,53,90,90,90,54,54,91,91,91,55,55,92,92,92,56,56,93,93>>,
    <<88,52,52,52,52,52,52,52,89,89,89,89,89,53,53,53,90,90,90,54,54,91,91,91,55,55,92,92,92,56,56,93>>,
    <<88,52,52,52,52,52,52,52,89,89,89,89,89,89,53,53,53,90,90,54,54,91,91,91,55,55,92,92,92,56,56,93>>,
    <<88,52,52,52,52,52,52,52,131,132,89,89,89,89,53,53,53,90,90,54,54,54,91,91,55,55,55,92,92,56,56,56>>,
    <<52,52,52,52,52,52,52,131,131,132,132,132,89,89,53,53,53,53,90,54,54,54,54,91,91,55,55,55,92,92,56,56>>,
    <<94,52,52,52,52,52,131,131,95,95,95,96,96,96,96,53,53,97,97,97,54,54,98,98,91,55,55,55,99,92,56,56>>,
    <<94,94,94,94,52,131,95,95,95,95,95,96,96,96,96,96,97,97,97,97,97,98,98,98,98,98,99,99,99,99,99,56>>,
    <<94,94,94,94,94,95,95,95,95,95,95,95,96,96,96,96,96,97,97,97,97,97,98,98,98,98,98,99,99,99,99,99>>,
    <<94,94,94,94,94,137,95,95,95,95,95,95,95,96,96,96,96,96,97,97,97,97,97,98,98,98,98,98,99,99,99,99>>,
    <<94,94,94,94,94,94,137,95,95,95,95,95,95,95,96,96,96,96,96,97,97,97,97,97,98,98,98,98,98,99,99,99>>,
    <<94,94,94,94,94,94,137,101,101,95,95,95,95,95,95,96,96,96,96,96,97,97,97,97,97,98,98,98,98,98,99,99>>,
    <<58,58,58,58,58,58,58,101,101,101,101,242,242,242,242,242,60,60,60,60,60,61,61,61,61,61,62,62,62,62,62,63>>,
    <<58,58,58,58,58,58,58,101,101,101,101,101,242,243,243,243,243,60,60,60,60,60,104,61,61,61,61,105,62,62,62,62>>,
    <<100,100,100,58,58,58,58,101,101,101,101,101,101,243,243,243,243,243,103,103,103,103,103,104,104,104,104,104,105,105,105,105>>,
    <<100,100,100,100,100,58,58,58,101,101,101,101,101,101,244,244,244,244,244,103,103,103,103,103,104,104,104,104,104,105,105,105>>,
    <<100,100,100,100,100,100,100,107,107,101,101,101,101,101,101,102,102,102,102,102,67,103,103,103,103,68,104,104,104,104,69,105>>,
    <<64,64,64,64,64,64,64,107,107,107,107,65,65,65,65,65,66,66,66,66,245,67,67,67,67,103,68,68,68,68,104,69>>,
    <<64,64,64,64,64,64,64,107,107,107,107,107,65,65,65,108,108,66,66,66,66,109,67,67,67,67,67,68,68,68,68,68>>,
    <<106,106,106,64,64,64,64,64,107,107,107,107,107,108,108,108,108,108,109,109,109,109,109,110,110,110,110,110,111,111,111,111>>,
    <<106,106,106,106,106,106,64,64,107,107,107,107,107,107,108,108,108,108,108,109,109,109,109,109,110,110,110,110,110,111,111,111>>,
    <<106,106,106,106,106,106,106,106,113,107,107,107,107,107,107,108,108,108,108,108,73,109,109,109,109,74,74,110,110,110,75,75>>,
    <<70,70,70,70,70,70,70,113,113,113,71,71,71,71,71,71,72,72,72,72,108,73,73,73,73,109,74,74,74,110,110,75>>,
    <<70,70,70,70,70,70,70,70,113,113,113,113,71,71,71,114,114,72,72,72,72,115,73,73,73,73,73,74,74,74,74,74>>,
    <<112,112,112,112,70,70,70,70,113,113,113,113,113,114,114,114,114,114,115,115,115,115,115,116,116,116,116,116,117,117,117,117>>,
    <<112,112,112,112,112,112,112,70,113,113,113,113,113,113,114,114,114,114,114,115,115,115,115,115,116,116,116,116,116,81,117,117>>,
    <<112,112,112,112,112,112,112,112,113,113,113,113,113,113,113,114,114,114,114,114,79,115,115,115,115,80,80,116,116,116,81,81>>,
    <<76,76,76,76,76,76,76,76,119,119,77,77,77,77,77,77,78,78,78,78,114,79,79,79,79,115,80,80,80,116,116,81>>,
    <<76,76,76,76,76,76,76,76,119,119,119,119,77,77,77,77,120,78,78,78,78,121,79,79,79,79,122,80,80,80,80,80>>,
    <<118,118,118,118,76,76,76,76,119,119,119,119,119,120,120,120,120,120,121,121,121,121,121,122,122,122,122,122,123,123,123,123>>,
    <<118,118,118,118,118,118,118,76,119,119,119,119,119,119,120,120,120,120,120,121,121,121,121,121,122,122,122,122,122,87,123,123>>
  >>,
  <<
    <<88,88,88,52,52,52,52,125,89,89,89,89,89,89,90,90,90,90,90,54,91,91,91,91,55,92,92,92,92,56,93,93>>,
    <<88,88,88,52,52,52,52,125,89,89,89,89,89,89,89,90,90,90,90,90,91,91,91,91,91,92,92,92,92,56,93,93>>,
    <<88,88,88,52,52,52,52,125,89,89,89,89,89,89,89,90,90,90,90,90,91,91,91,91,91,92,92,92,92,92,93,93>>,
    <<88,88,88,52,52,52,52,52,89,89,89,89,89,89,89,53,90,90,90,90,54,91,91,91,91,55,92,92,92,92,56,93>>,
    <<88,88,88,52,52,52,52,52,89,89,89,89,89,89,89,53,90,90,90,90,54,91,91,91,91,55,92,92,92,92,56,93>>,
    <<88,88,88,52,52,52,52,52,131,132,89,89,89,89,89,53,53,90,90,90,54,54,91,91,91,91,55,92,92,92,92,56>>,
    <<88,88,52,52,52,52,52,131,131,131,132,132,89,89,89,53,53,53,90,90,90,54,54,91,91,91,55,92,92,92,92,56>>,
    <<130,88,52,52,52,52,131,131,131,131,132,132,132,132,89,53,53,53,97,90,90,54,54,98,91,91,55,55,92,92,92,92>>,
    <<94,94,94,94,52,131,131,131,131,95,95,132,132,96,96,96,97,97,97,97,97,98,98,98,98,98,99,99,99,99,99,92>>,
    <<94,94,94,94,94,131,131,95,95,95,95,95,96,96,96,96,96,97,97,97,97,97,98,98,98,98,98,99,99,99,99,99>>,
    <<94,94,94,94,94,94,95,95,95,95,95,95,95,96,96,96,96,96,97,97,97,97,97,98,98,98,98,98,99,99,99,99>>,
    <<94,94,94,94,94,94,137,137,95,95,95,95,95,95,96,96,96,96,96,97,97,97,97,97,98,98,98,98,98,99,99,99>>,
    <<94,94,94,94,94,94,137,137,137,95,95,95,95,95,95,96,96,96,96,96,97,97,97,97,97,98,98,98,98,98,99,99>>,
    <<94,94,94,94,94,94,137,137,137,101,95,95,95,95,95,95,96,96,96,96,96,97,97,97,97,97,98,98,98,98,98,99>>,
    <<58,58,58,58,58,58,58,101,101,101,101,101,243,243,243,243,243,103,103,103,103,103,104,104,61,61,97,105,105,98,98,98>>,
    <<100,100,100,58,58,58,58,101,101,101,101,101,101,243,243,243,243,243,103,103,103,103,103,104,104,104,104,104,105,105,105,105>>,
    <<100,100,100,100,100,58,58,58,101,101,101,101,101,101,244,244,244,244,244,103,103,103,103,103,104,104,104,104,104,105,105,105>>,
    <<100,100,100,100,100,100,100,143,143,101,101,101,101,101,101,102,102,102,102,102,103,103,103,103,103,104,104,104,104,104,105,105>>,
    <<100,100,100,100,100,100,100,107,107,107,101,101,101,101,101,101,245,245,245,245,245,103,103,103,103,103,104,104,104,104,104,69>>,
    <<64,64,64,64,64,64,64,107,107,107,107,107,65,65,108,108,108,66,66,246,246,246,67,67,67,103,103,111,68,68,104,104>>,
    <<106,106,106,106,64,64,64,64,107,107,107,107,107,108,108,108,108,108,109,109,109,109,109,110,110,110,110,110,111,111,111,111>>,
    <<106,106,106,106,106,106,64,64,107,107,107,107,107,107,108,108,108,108,108,109,109,109,109,109,110,110,110,110,110,111,111,111>>,
    <<106,106,106,106,106,106,106,106,149,107,107,107,107,107,107,108,108,108,108,108,109,109,109,109,109,110,110,110,110,110,111,111>>,
    <<106,106,106,106,106,106,106,106,113,113,107,107,107,107,107,107,108,108,108,108,108,109,109,109,109,109,74,110,110,110,110,75>>,
    <<70,70,70,70,70,70,70,70,113,113,113,113,71,71,71,114,114,72,72,72,115,115,73,73,73,109,109,74,74,74,110,110>>,
    <<112,112,112,112,70,70,70,70,113,113,113,113,113,114,114,114,114,114,115,115,115,115,115,116,116,116,116,116,117,117,117,117>>,
    <<112,112,112,112,112,112,112,70,113,113,113,113,113,113,114,114,114,114,114,115,115,115,115,115,116,116,116,116,116,117,117,117>>,
    <<112,112,112,112,112,112,112,112,113,113,113,113,113,113,113,114,114,114,114,114,115,115,115,115,115,116,116,116,116,116,117,117>>,
    <<112,112,112,112,112,112,112,112,112,119,113,113,113,113,113,113,114,114,114,114,114,79,115,115,115,115,80,116,116,116,116,81>>,
    <<76,76,76,76,76,76,76,76,119,119,119,119,77,77,77,120,120,78,78,78,121,121,79,79,79,115,115,80,80,80,116,116>>,
    <<118,118,118,118,76,76,76,76,119,119,119,119,119,120,120,120,120,120,121,121,121,121,121,122,122,122,122,122,123,123,123,123>>,
    <<118,118,118,118,118,118,118,76,119,119,119,119,119,119,120,120,120,120,120,121,121,121,121,121,122,122,122,122,122,123,123,123>>
  >>,
  <<
    <<88,88,88,88,52,52,52,125,125,125,89,89,89,89,89,90,90,90,90,90,91,91,91,91,91,92,92,92,92,92,93,93>>,
    <<88,88,88,88,52,52,52,125,125,125,89,89,89,89,89,90,90,90,90,90,91,91,91,91,91,92,92,92,92,92,93,93>>,
    <<88,88,88,88,52,52,52,125,125,125,89,89,89,89,89,90,90,90,90,90,91,91,91,91,91,92,92,92,92,92,93,93>>,
    <<88,88,88,88,52,52,52,52,125,125,89,89,89,89,89,89,90,90,90,90,90,91,91,91,91,91,92,92,92,92,92,93>>,
    <<88,88,88,88,52,52,52,52,125,125,89,89,89,89,89,89,90,90,90,90,90,91,91,91,91,91,92,92,92,92,92,93>>,
    <<88,88,88,88,52,52,52,52,131,132,89,89,89,89,89,89,53,90,90,90,90,90,91,91,91,91,91,92,92,92,92,93>>,
    <<88,88,88,88,52,52,52,131,131,131,132,132,89,89,89,89,53,90,90,90,90,90,91,91,91,91,91,92,92,92,92,92>>,
    <<130,88,88,88,52,52,131,131,131,131,132,132,132,132,89,89,133,133,133,90,90,90,134,134,91,91,91,135,92,92,92,92>>,
    <<130,130,130,52,52,131,131,131,131,131,131,132,132,132,132,132,133,133,133,133,97,134,134,134,98,98,135,135,99,99,99,92>>,
    <<130,94,94,94,94,131,131,131,131,131,95,95,132,132,96,96,96,133,97,97,97,97,98,98,98,98,98,99,99,99,99,99>>,
    <<94,94,94,94,94,94,131,131,95,95,95,95,95,96,96,96,96,96,97,97,97,97,97,98,98,98,98,98,99,99,99,99>>,
    <<94,94,94,94,94,94,137,137,95,95,95,95,95,95,96,96,96,96,96,97,97,97,97,97,98,98,98,98,98,99,99,99>>,
    <<94,94,94,94,94,94,137,137,137,95,95,95,95,95,95,96,96,96,96,96,97,97,97,97,97,98,98,98,98,98,99,99>>,
    <<94,94,94,94,94,94,94,137,137,137,95,95,95,95,95,95,96,96,96,96,96,97,97,97,97,97,98,98,98,98,98,99>>,
    <<94,94,94,94,94,94,94,137,137,137,137,101,95,95,95,95,243,96,96,96,96,96,97,97,97,97,97,98,98,98,98,98>>,
    <<100,100,100,100,58,58,58,101,101,101,101,101,101,243,244,244,244,244,103,103,103,103,103,104,104,104,104,104,105,105,105,105>>,
    <<100,100,100,100,100,100,58,58,101,101,101,101,101,101,244,244,244,244,244,103,103,103,103,103,104,104,104,104,104,105,105,105>>,
    <<100,100,100,100,100,100,100,143,143,101,101,101,101,101,101,102,102,102,245,245,103,103,103,103,103,104,104,104,104,104,105,105>>,
    <<100,100,100,100,100,100,100,143,143,143,101,101,101,101,101,101,245,245,245,245,246,103,103,103,103,103,104,104,104,104,104,105>>,
    <<100,100,100,100,100,100,100,143,143,143,107,107,101,101,101,101,101,246,246,246,246,246,103,103,103,103,103,104,104,104,104,104>>,
    <<106,106,106,106,64,64,64,64,107,107,107,107,107,108,108,108,108,108,109,109,109,109,109,110,110,110,110,110,111,111,111,111>>,
    <<106,106,106,106,106,106,64,64,107,107,107,107,107,107,108,108,108,108,108,109,109,109,109,109,110,110,110,110,110,111,111,111>>,
    <<106,106,106,106,106,106,106,106,149,107,107,107,107,107,107,108,108,108,108,108,109,109,109,109,109,110,110,110,110,110,111,111>>,
    <<106,106,106,106,106,106,106,106,149,149,107,107,107,107,107,107,108,108,108,108,108,109,109,109,109,109,110,110,110,110,110,111>>,
    <<106,106,106,106,106,106,106,106,113,113,113,113,107,107,107,107,107,108,108,108,108,108,109,109,109,109,109,110,110,110,110,110>>,
    <<112,112,112,112,70,70,70,70,113,113,113,113,113,114,114,114,114,114,115,115,115,115,115,116,116,116,116,116,117,117,117,117>>,
    <<112,112,112,112,112,112,112,70,113,113,113,113,113,113,114,114,114,114,114,115,115,115,115,115,116,116,116,116,116,117,117,117>>,
    <<112,112,112,112,112,112,112,112,113,113,113,113,113,113,113,114,114,114,114,114,115,115,115,115,115,116,116,116,116,116,117,117>>,
    <<112,112,112,112,112,112,112,112,112,155,113,113,113,113,113,113,114,114,114,114,114,115,115,115,115,115,116,116,116,116,116,117>>,
    <<112,112,112,112,112,112,112,112,119,119,155,155,113,113,113,113,113,114,114,114,114,114,115,115,115,115,115,80,116,116,116,116>>,
    <<118,118,118,118,118,76,76,76,119,119,119,119,119,120,120,120,120,120,121,121,121,121,121,122,122,122,122,122,123,123,123,123>>,
    <<118,118,118,118,118,118,118,118,119,119,119,119,119,119,120,120,120,120,120,121,121,121,121,121,122,122,122,122,122,123,123,123>>
  >>,
  <<
    <<88,88,88,88,88,88,52,125,125,125,125,89,89,89,89,126,90,90,90,90,91,91,91,91,91,92,92,92,92,92,93,93>>,
    <<88,88,88,88,88,88,52,125,125,125,125,89,89,89,89,126,90,90,90,90,127,91,91,91,91,128,92,92,92,92,129,93>>,
    <<88,88,88,88,88,88,52,125,125,125,125,89,89,89,89,89,90,90,90,90,90,91,91,91,91,91,92,92,92,92,92,93>>,
    <<88,88,88,88,88,52,52,125,125,125,125,89,89,89,89,89,90,90,90,90,90,91,91,91,91,91,92,92,92,92,92,93>>,
    <<88,88,88,88,88,52,52,52,125,125,125,89,89,89,89,89,90,90,90,90,90,91,91,91,91,91,92,92,92,92,92,93>>,
    <<88,88,88,88,88,52,52,52,131,125,125,89,89,89,89,89,89,90,90,90,90,90,91,91,91,91,91,92,92,92,92,92>>,
    <<88,88,88,88,88,52,52,131,131,131,132,132,89,89,89,89,89,90,90,90,90,90,91,91,91,91,91,92,92,92,92,92>>,
    <<130,88,88,88,88,52,131,131,131,131,131,132,132,132,89,89,89,133,133,90,90,90,134,134,91,91,91,135,92,92,92,92>>,
    <<130,130,130,88,88,131,131,131,131,131,131,132,132,132,132,132,133,133,133,133,133,134,134,134,134,134,91,135,135,135,92,92>>,
    <<130,130,130,130,130,131,131,131,131,131,131,131,132,132,132,132,132,133,133,133,133,133,134,134,134,134,134,135,135,135,135,99>>,
    <<130,130,94,94,94,94,131,131,131,131,131,95,95,132,132,132,96,96,133,133,97,97,97,134,134,98,98,98,135,99,99,99>>,
    <<94,94,94,94,94,94,137,137,131,95,95,95,95,95,96,96,96,96,96,97,97,97,97,97,98,98,98,98,98,99,99,99>>,
    <<94,94,94,94,94,94,137,137,137,95,95,95,95,95,95,96,96,96,96,96,97,97,97,97,97,98,98,98,98,98,99,99>>,
    <<94,94,94,94,94,94,94,137,137,137,95,95,95,95,95,95,96,96,96,96,96,97,97,97,97,97,98,98,98,98,98,99>>,
    <<94,94,94,94,94,94,94,137,137,137,137,137,95,95,95,95,95,96,96,96,96,96,97,97,97,97,97,98,98,98,98,98>>,
    <<136,136,94,94,94,94,94,137,137,137,137,137,137,138,138,138,244,244,139,139,139,139,139,104,104,104,140,140,105,105,105,105>>,
    <<100,100,100,100,100,100,58,58,101,101,101,101,101,101,244,244,102,102,102,103,103,103,103,103,104,104,104,104,104,105,105,105>>,
    <<100,100,100,100,100,100,100,143,143,101,101,101,101,101,101,245,245,245,245,245,103,103,103,103,103,104,104,104,104,104,105,105>>,
    <<100,100,100,100,100,100,100,143,143,143,101,101,101,101,101,101,245,246,246,246,246,103,103,103,103,103,104,104,104,104,104,105>>,
    <<100,100,100,100,100,100,100,143,143,143,143,143,101,101,101,101,101,246,246,246,246,246,103,103,103,103,103,104,104,104,104,104>>,
    <<142,142,142,100,100,100,100,100,143,143,143,143,143,101,144,144,144,144,247,247,247,247,247,110,110,110,146,146,111,111,111,147>>,
    <<106,106,106,106,106,106,106,64,107,107,107,107,107,107,108,108,108,108,108,109,109,109,109,109,110,110,110,110,110,111,111,111>>,
    <<106,106,106,106,106,106,106,106,149,107,107,107,107,107,107,108,108,108,108,108,109,109,109,109,109,110,110,110,110,110,111,111>>,
    <<106,106,106,106,106,106,106,106,149,149,107,107,107,107,107,107,108,108,108,108,108,109,109,109,109,109,110,110,110,110,110,111>>,
    <<106,106,106,106,106,106,106,106,149,149,149,149,107,107,107,107,107,108,108,108,108,108,109,109,109,109,109,110,110,110,110,110>>,
    <<148,148,148,106,106,106,106,106,149,149,149,149,149,107,114,150,150,150,115,115,115,151,151,116,116,116,152,152,117,117,117,153>>,
    <<112,112,112,112,112,112,112,70,113,113,113,113,113,113,114,114,114,114,114,115,115,115,115,115,116,116,116,116,116,117,117,117>>,
    <<112,112,112,112,112,112,112,112,113,113,113,113,113,113,113,114,114,114,114,114,115,115,115,115,115,116,116,116,116,116,117,117>>,
    <<112,112,112,112,112,112,112,112,155,155,113,113,113,113,113,113,114,114,114,114,114,115,115,115,115,115,116,116,116,116,116,117>>,
    <<112,112,112,112,112,112,112,112,155,155,155,155,113,113,113,113,113,114,114,114,114,114,115,115,115,115,115,116,116,116,116,116>>,
    <<154,154,154,154,112,112,112,112,155,155,155,155,155,120,120,156,156,156,121,121,121,157,157,122,122,122,158,158,123,123,123,159>>,
    <<118,118,118,118,118,118,118,119,119,119,119,119,119,119,120,120,120,120,120,121,121,121,121,121,122,122,122,122,122,123,123,123>>
  >>,
  <<
    <<88,88,88,88,88,88,88,125,125,125,125,125,89,89,89,126,126,90,90,90,127,127,91,91,91,128,128,92,92,92,129,129>>,
    <<88,88,88,88,88,88,88,125,125,125,125,125,89,89,89,126,126,90,90,90,127,127,91,91,91,128,128,92,92,92,129,129>>,
    <<88,88,88,88,88,88,88,125,125,125,125,125,89,89,89,126,126,90,90,90,127,127,91,91,91,128,128,92,92,92,129,129>>,
    <<88,88,88,88,88,88,88,125,125,125,125,125,89,89,89,89,126,90,90,90,90,127,91,91,91,91,128,92,92,92,92,129>>,
    <<88,88,88,88,88,88,88,52,125,125,125,125,89,89,89,89,126,90,90,90,90,127,91,91,91,91,128,92,92,92,92,129>>,
    <<88,88,88,88,88,88,88,131,131,125,125,125,89,89,89,89,89,90,90,90,90,90,91,91,91,91,91,128,92,92,92,92>>,
    <<88,88,88,88,88,88,52,131,131,131,125,125,89,89,89,89,89,89,90,90,90,90,90,91,91,91,91,128,92,92,92,92>>,
    <<88,88,88,88,88,88,131,131,131,131,131,132,132,132,89,89,89,133,133,90,90,90,134,134,91,91,91,135,135,92,92,92>>,
    <<130,130,130,88,88,88,131,131,131,131,131,131,132,132,132,132,133,133,133,133,133,134,134,134,134,134,91,135,135,135,135,92>>,
    <<130,130,130,130,130,131,131,131,131,131,131,131,132,132,132,132,132,133,133,133,133,133,134,134,134,134,134,135,135,135,135,135>>,
    <<130,130,130,130,130,173,131,131,131,131,131,131,131,132,132,132,132,132,133,133,133,133,133,134,134,134,134,134,135,135,135,135>>,
    <<130,130,130,94,94,94,173,131,131,131,131,131,131,95,132,132,132,132,96,133,133,133,133,97,134,134,134,98,98,135,135,135>>,
    <<94,94,94,94,94,94,94,137,137,131,131,95,95,95,95,132,96,96,96,96,97,97,97,97,97,98,98,98,98,98,99,99>>,
    <<94,94,94,94,94,94,94,137,137,137,137,95,95,95,95,95,96,96,96,96,96,97,97,97,97,97,98,98,98,98,98,99>>,
    <<94,94,94,94,94,94,94,137,137,137,137,137,95,95,95,95,95,96,96,96,96,96,97,97,97,97,97,98,98,98,98,98>>,
    <<136,136,136,94,94,94,94,137,137,137,137,137,137,138,138,138,138,138,139,139,139,139,139,140,140,140,140,140,141,141,141,141>>,
    <<136,136,136,136,136,94,94,94,137,137,137,137,137,137,138,138,138,138,138,139,139,139,139,139,140,140,140,140,140,141,141,141>>,
    <<100,100,100,100,100,100,100,143,143,101,101,101,101,101,101,245,245,245,245,245,103,103,103,103,103,104,104,104,104,104,105,105>>,
    <<100,100,100,100,100,100,100,143,143,143,143,101,101,101,101,101,246,246,246,246,246,103,103,103,103,103,104,104,104,104,104,105>>,
    <<100,100,100,100,100,100,100,143,143,143,143,143,101,101,101,101,101,246,246,246,246,247,103,103,103,103,103,104,104,104,104,104>>,
    <<142,142,142,100,100,100,100,100,143,143,143,143,143,144,144,144,144,144,247,247,247,247,247,146,146,146,146,146,147,147,147,147>>,
    <<142,142,142,142,142,142,100,100,143,143,143,143,143,143,144,144,144,144,144,248,248,248,248,248,110,146,146,146,146,111,111,147>>,
    <<106,106,106,106,106,106,106,106,149,107,107,107,107,107,107,108,108,108,108,108,109,109,109,109,109,110,110,110,110,110,111,111>>,
    <<106,106,106,106,106,106,106,106,149,149,107,107,107,107,107,107,108,108,108,108,108,109,109,109,109,109,110,110,110,110,110,111>>,
    <<106,106,106,106,106,106,106,106,149,149,149,149,107,107,107,107,150,108,108,108,108,108,109,109,109,109,109,110,110,110,110,110>>,
    <<148,148,148,148,106,106,106,106,149,149,149,149,149,150,150,150,150,150,151,151,151,151,151,152,152,152,152,152,153,153,153,153>>,
    <<148,148,148,148,148,148,106,106,149,149,149,149,149,149,150,150,150,150,150,115,151,151,151,151,116,116,152,152,152,117,117,153>>,
    <<112,112,112,112,112,112,112,112,155,113,113,113,113,113,113,114,114,114,114,114,115,115,115,115,115,116,116,116,116,152,117,117>>,
    <<112,112,112,112,112,112,112,112,155,155,113,113,113,113,113,113,114,114,114,114,114,115,115,115,115,115,116,116,116,116,116,117>>,
    <<112,112,112,112,112,112,112,112,155,155,155,155,113,113,113,113,113,114,114,114,114,157,115,115,115,115,115,116,116,116,116,116>>,
    <<154,154,154,154,112,112,112,112,155,155,155,155,155,156,156,156,156,156,157,157,157,157,157,158,158,158,158,158,159,159,159,159>>,
    <<154,154,154,154,154,154,154,112,155,155,155,155,155,155,156,156,156,156,156,121,157,157,157,157,122,122,158,158,158,123,123,159>>
  >>,
  <<
    <<124,124,88,88,88,88,88,125,125,125,125,125,125,89,89,126,126,126,90,90,127,127,127,91,91,128,128,128,92,92,129,129>>,
    <<124,124,88,88,88,88,88,125,125,125,125,125,125,89,89,126,126,126,90,90,127,127,127,91,91,128,128,128,92,92,129,129>>,
    <<124,88,88,88,88,88,88,125,125,125,125,125,125,89,89,126,126,126,90,90,127,127,127,91,91,128,128,128,92,92,129,129>>,
    <<124,88,88,88,88,88,88,167,125,125,125,125,125,89,89,89,126,126,90,90,90,127,127,91,91,91,128,128,92,92,129,129>>,
    <<124,88,88,88,88,88,88,167,125,125,125,125,125,89,89,89,126,126,90,90,90,127,127,127,91,91,128,128,128,92,92,129>>,
    <<88,88,88,88,88,88,88,167,167,125,125,125,125,89,89,89,89,126,126,90,90,90,127,127,91,91,91,128,128,92,92,129>>,
    <<88,88,88,88,88,88,88,167,167,131,125,125,125,89,89,89,89,126,126,90,90,90,127,127,91,91,91,128,128,92,92,92>>,
    <<88,88,88,88,88,88,167,167,131,131,131,168,132,132,89,89,89,89,133,90,90,90,90,134,91,91,91,91,135,128,92,92>>,
    <<130,130,130,88,88,88,167,131,131,131,131,131,132,132,132,132,89,133,133,133,133,90,134,134,134,134,91,135,135,135,135,92>>,
    <<130,130,130,130,130,88,131,131,131,131,131,131,132,132,132,132,132,133,133,133,133,133,134,134,134,134,134,135,135,135,135,135>>,
    <<130,130,130,130,130,130,131,131,131,131,131,131,131,132,132,132,132,132,133,133,133,133,133,134,134,134,134,134,135,135,135,135>>,
    <<130,130,130,130,130,130,173,131,131,131,131,131,131,131,132,132,132,132,132,133,133,133,133,133,134,134,134,134,134,135,135,135>>,
    <<130,130,130,130,130,94,173,173,137,131,131,131,131,131,95,132,132,132,132,132,133,133,133,133,133,134,134,134,134,134,135,135>>,
    <<94,94,94,94,94,94,94,137,137,137,137,131,95,95,95,95,132,96,96,96,96,133,97,97,97,97,134,134,98,98,98,135>>,
    <<94,94,94,94,94,94,94,137,137,137,137,137,95,95,95,95,138,96,96,96,96,96,140,97,97,97,97,141,98,98,98,98>>,
    <<136,136,136,94,94,94,94,137,137,137,137,137,137,138,138,138,138,138,139,139,139,139,139,140,140,140,140,140,141,141,141,141>>,
    <<136,136,136,136,136,94,94,94,137,137,137,137,137,137,138,138,138,138,138,139,139,139,139,139,140,140,140,140,140,141,141,141>>,
    <<136,136,136,136,136,136,136,179,143,137,137,137,137,137,137,138,138,138,138,138,139,139,139,139,139,140,140,140,140,140,141,141>>,
    <<100,100,100,100,100,100,100,143,143,143,143,101,101,101,101,101,246,246,246,246,246,103,103,103,103,103,104,104,104,104,104,105>>,
    <<100,100,100,100,100,100,100,143,143,143,143,143,101,101,101,144,144,246,247,247,247,247,103,103,103,103,103,104,104,104,104,104>>,
    <<142,142,142,142,100,100,100,100,143,143,143,143,143,144,144,144,144,144,247,247,247,247,247,146,146,146,146,146,147,147,147,147>>,
    <<142,142,142,142,142,142,100,100,143,143,143,143,143,143,144,144,144,144,144,248,248,248,248,248,146,146,146,146,146,147,147,147>>,
    <<142,142,142,142,142,142,142,142,143,143,143,143,143,143,143,144,144,144,144,144,145,145,145,145,145,146,146,146,146,146,111,147>>,
    <<106,106,106,106,106,106,106,106,149,149,149,107,107,107,107,107,108,108,108,108,108,109,109,109,109,109,110,110,110,110,146,111>>,
    <<106,106,106,106,106,106,106,106,149,149,149,149,107,107,107,150,150,108,108,108,151,151,109,109,109,109,152,110,110,110,110,110>>,
    <<148,148,148,148,106,106,106,106,149,149,149,149,149,150,150,150,150,150,151,151,151,151,151,152,152,152,152,152,153,153,153,153>>,
    <<148,148,148,148,148,148,148,106,149,149,149,149,149,149,150,150,150,150,150,151,151,151,151,151,152,152,152,152,152,153,153,153>>,
    <<148,148,148,148,148,148,148,148,149,149,149,149,149,149,149,150,150,150,150,150,151,151,151,151,151,116,152,152,152,152,117,153>>,
    <<112,112,112,112,112,112,112,112,155,155,113,113,113,113,113,113,114,114,114,114,114,115,115,115,115,151,116,116,116,116,152,117>>,
    <<112,112,112,112,112,112,112,112,155,155,155,155,113,113,113,113,156,114,114,114,157,157,115,115,115,115,158,116,116,116,116,116>>,
    <<154,154,154,154,112,112,112,112,155,155,155,155,155,156,156,156,156,156,157,157,157,157,157,158,158,158,158,158,159,159,159,159>>,
    <<154,154,154,154,154,154,154,112,155,155,155,155,155,155,156,156,156,156,156,157,157,157,157,157,158,158,158,158,158,159,159,159>>
  >>,
  <<
    <<124,124,124,88,88,88,88,161,161,125,125,125,125,125,126,126,126,126,126,127,127,127,127,127,128,128,128,128,128,92,129,129>>,
    <<124,124,124,88,88,88,88,161,161,125,125,125,125,125,89,126,126,126,126,126,127,127,127,127,127,128,128,128,128,128,129,129>>,
    <<124,124,124,88,88,88,88,161,161,125,125,125,125,125,89,126,126,126,126,126,127,127,127,127,127,128,128,128,128,128,129,129>>,
    <<124,124,124,88,88,88,88,167,161,125,125,125,125,125,89,126,126,126,126,126,127,127,127,127,127,128,128,128,128,128,129,129>>,
    <<124,124,124,88,88,88,88,167,167,125,125,125,125,125,125,89,126,126,126,126,90,127,127,127,127,91,128,128,128,128,92,129>>,
    <<124,124,88,88,88,88,88,167,167,125,125,125,125,125,125,89,126,126,126,126,90,127,127,127,127,91,128,128,128,128,92,129>>,
    <<124,124,88,88,88,88,88,167,167,167,125,125,125,125,125,89,89,126,126,126,90,90,127,127,127,91,91,128,128,128,92,92>>,
    <<124,88,88,88,88,88,167,167,167,167,131,168,168,125,125,89,89,89,126,126,90,90,90,127,127,127,91,91,128,128,128,92>>,
    <<130,130,130,88,88,88,167,167,167,131,131,131,168,132,132,132,89,133,133,133,133,90,134,134,134,134,91,135,135,135,135,92>>,
    <<130,130,130,130,130,88,167,167,131,131,131,131,131,132,132,132,132,132,133,133,133,133,134,134,134,134,134,135,135,135,135,135>>,
    <<130,130,130,130,130,130,173,131,131,131,131,131,131,132,132,132,132,132,133,133,133,133,133,134,134,134,134,134,135,135,135,135>>,
    <<130,130,130,130,130,130,173,173,131,131,131,131,131,131,132,132,132,132,132,133,133,133,133,133,134,134,134,134,134,135,135,135>>,
    <<130,130,130,130,130,130,173,173,173,131,131,131,131,131,131,132,132,132,132,132,133,133,133,133,133,134,134,134,134,134,135,135>>,
    <<130,130,130,130,130,130,94,173,173,173,131,131,131,131,131,131,132,132,132,132,132,133,133,133,133,133,134,134,134,134,134,135>>,
    <<94,94,94,94,94,94,94,137,137,137,137,137,131,131,138,138,138,132,132,139,139,139,133,133,140,140,140,134,134,134,98,98>>,
    <<136,136,136,94,94,94,94,94,137,137,137,137,137,138,138,138,138,138,139,139,139,139,139,140,140,140,140,140,141,141,141,141>>,
    <<136,136,136,136,136,136,94,94,137,137,137,137,137,137,138,138,138,138,138,139,139,139,139,139,140,140,140,140,140,141,141,141>>,
    <<136,136,136,136,136,136,136,179,179,137,137,137,137,137,137,138,138,138,138,138,139,139,139,139,139,140,140,140,140,140,141,141>>,
    <<136,136,136,136,136,136,136,179,179,179,137,137,137,137,137,137,138,138,138,138,138,139,139,139,139,139,140,140,140,140,140,141>>,
    <<100,100,100,100,100,100,100,143,143,143,143,143,101,101,144,144,144,247,247,247,247,247,146,146,146,146,146,147,147,104,104,140>>,
    <<142,142,142,142,100,100,100,100,143,143,143,143,143,144,144,144,144,144,247,247,247,247,247,146,146,146,146,146,147,147,147,147>>,
    <<142,142,142,142,142,142,100,100,143,143,143,143,143,143,144,144,144,144,144,248,248,248,248,248,146,146,146,146,146,147,147,147>>,
    <<142,142,142,142,142,142,142,142,143,143,143,143,143,143,143,144,144,144,144,144,145,145,145,145,145,146,146,146,146,146,147,147>>,
    <<142,142,142,142,142,142,142,142,185,149,143,143,143,143,143,143,144,144,144,144,144,249,249,249,249,249,146,146,146,146,146,147>>,
    <<106,106,106,106,106,106,106,106,149,149,149,149,107,107,150,150,150,108,108,151,151,151,109,109,250,250,250,110,110,110,146,146>>,
    <<148,148,148,148,106,106,106,106,149,149,149,149,149,150,150,150,150,150,151,151,151,151,151,152,152,152,152,152,153,153,153,153>>,
    <<148,148,148,148,148,148,148,106,149,149,149,149,149,149,150,150,150,150,150,151,151,151,151,151,152,152,152,152,152,153,153,153>>,
    <<148,148,148,148,148,148,148,148,149,149,149,149,149,149,149,150,150,150,150,150,151,151,151,151,151,152,152,152,152,152,153,153>>,
    <<148,148,148,148,148,148,148,148,148,155,149,149,149,149,149,149,150,150,150,150,150,151,151,151,151,151,152,152,152,152,152,153>>,
    <<112,112,112,112,112,112,112,112,155,155,155,155,113,113,113,156,156,114,114,157,157,157,115,115,158,158,158,116,116,116,152,152>>,
    <<154,154,154,154,154,112,112,112,155,155,155,155,155,156,156,156,156,156,157,157,157,157,157,158,158,158,158,158,159,159,159,159>>,
    <<154,154,154,154,154,154,154,154,155,155,155,155,155,155,156,156,156,156,156,157,157,157,157,157,158,158,158,158,158,159,159,159>>
  >>,
  <<
    <<124,124,124,124,124,88,88,161,161,161,125,125,125,125,125,126,126,126,126,126,127,127,127,127,127,128,128,128,128,128,129,129>>,
    <<124,124,124,124,124,88,88,161,161,161,125,125,125,125,125,126,126,126,126,126,127,127,127,127,127,128,128,128,128,128,129,129>>,
    <<124,124,124,124,124,88,88,161,161,161,125,125,125,125,125,126,126,126,126,126,127,127,127,127,127,128,128,128,128,128,129,129>>,
    <<124,124,124,124,88,88,88,167,161,161,125,125,125,125,125,126,126,126,126,126,127,127,127,127,127,128,128,128,128,128,129,129>>,
    <<124,124,124,124,88,88,88,167,161,161,125,125,125,125,125,125,126,126,126,126,126,127,127,127,127,127,128,128,128,128,128,129>>,
    <<124,124,124,124,88,88,88,167,167,167,125,125,125,125,125,125,126,126,126,126,126,127,127,127,127,127,128,128,128,128,128,129>>,
    <<124,124,124,124,88,88,88,167,167,167,125,125,125,125,125,125,89,126,126,126,126,90,127,127,127,127,127,128,128,128,128,128>>,
    <<124,124,124,88,88,88,167,167,167,167,167,168,168,125,125,125,89,169,126,126,126,90,170,127,127,127,127,128,128,128,128,128>>,
    <<166,166,124,88,88,88,167,167,167,167,167,168,168,168,168,132,169,169,169,169,133,170,170,170,134,134,127,171,135,135,128,128>>,
    <<130,130,130,130,130,88,167,167,167,167,131,131,168,168,132,132,132,169,169,133,133,133,170,134,134,134,134,171,135,135,135,135>>,
    <<130,130,130,130,130,130,167,167,167,131,131,131,131,131,132,132,132,132,133,133,133,133,133,134,134,134,134,134,135,135,135,135>>,
    <<130,130,130,130,130,130,173,173,131,131,131,131,131,131,132,132,132,132,132,133,133,133,133,133,134,134,134,134,134,135,135,135>>,
    <<130,130,130,130,130,130,173,173,173,131,131,131,131,131,131,132,132,132,132,132,133,133,133,133,133,134,134,134,134,134,135,135>>,
    <<130,130,130,130,130,130,130,173,173,173,131,131,131,131,131,131,132,132,132,132,132,133,133,133,133,133,134,134,134,134,134,135>>,
    <<130,130,130,130,130,130,130,173,173,173,173,131,131,131,131,131,138,132,132,132,132,132,133,133,133,133,133,134,134,134,134,134>>,
    <<136,136,136,136,94,94,94,94,137,137,137,137,137,138,138,138,138,138,139,139,139,139,139,140,140,140,140,140,141,141,141,141>>,
    <<136,136,136,136,136,136,94,94,137,137,137,137,137,137,138,138,138,138,138,139,139,139,139,139,140,140,140,140,140,141,141,141>>,
    <<136,136,136,136,136,136,136,179,179,137,137,137,137,137,137,138,138,138,138,138,139,139,139,139,139,140,140,140,140,140,141,141>>,
    <<136,136,136,136,136,136,136,179,179,179,137,137,137,137,137,137,138,138,138,138,138,139,139,139,139,139,140,140,140,140,140,141>>,
    <<136,136,136,136,136,136,136,179,179,179,179,143,137,137,137,137,137,138,138,138,138,138,139,139,139,139,139,140,140,140,140,140>>,
    <<142,142,142,142,100,100,100,100,143,143,143,143,143,144,144,144,144,144,247,248,248,248,248,146,146,146,146,146,147,147,147,147>>,
    <<142,142,142,142,142,142,142,100,143,143,143,143,143,143,144,144,144,144,144,248,248,248,248,248,146,146,146,146,146,147,147,147>>,
    <<142,142,142,142,142,142,142,142,185,143,143,143,143,143,143,144,144,144,144,144,145,145,145,249,249,146,146,146,146,146,147,147>>,
    <<142,142,142,142,142,142,142,142,185,185,143,143,143,143,143,143,144,144,144,144,144,249,249,249,249,250,146,146,146,146,146,147>>,
    <<142,142,142,142,142,142,142,142,185,185,185,149,143,143,143,143,143,144,144,144,144,144,250,250,250,250,250,146,146,146,146,146>>,
    <<148,148,148,148,148,106,106,106,149,149,149,149,149,150,150,150,150,150,151,151,151,151,151,152,152,152,152,152,153,153,153,153>>,
    <<148,148,148,148,148,148,148,106,149,149,149,149,149,149,150,150,150,150,150,151,151,151,151,151,152,152,152,152,152,153,153,153>>,
    <<148,148,148,148,148,148,148,148,148,149,149,149,149,149,149,150,150,150,150,150,151,151,151,151,151,152,152,152,152,152,153,153>>,
    <<148,148,148,148,148,148,148,148,148,191,149,149,149,149,149,149,150,150,150,150,150,151,151,151,151,151,152,152,152,152,152,153>>,
    <<148,148,148,148,148,148,148,148,191,191,191,155,149,149,149,149,149,150,150,150,150,150,151,151,151,151,151,152,152,152,152,152>>,
    <<154,154,154,154,154,112,112,155,155,155,155,155,155,156,156,156,156,156,157,157,157,157,157,158,158,158,158,158,159,159,159,159>>,
    <<154,154,154,154,154,154,154,154,155,155,155,155,155,155,156,156,156,156,156,157,157,157,157,157,158,158,158,158,158,159,159,159>>
  >>,
  <<
    <<124,124,124,124,124,124,88,161,161,161,161,125,125,125,125,162,126,126,126,126,163,127,127,127,127,128,128,128,128,128,129,129>>,
    <<124,124,124,124,124,124,88,161,161,161,161,125,125,125,125,162,126,126,126,126,163,127,127,127,127,164,128,128,128,128,165,129>>,
    <<124,124,124,124,124,124,88,161,161,161,161,125,125,125,125,125,126,126,126,126,126,127,127,127,127,127,128,128,128,128,128,129>>,
    <<124,124,124,124,124,124,88,161,161,161,161,125,125,125,125,125,126,126,126,126,126,127,127,127,127,127,128,128,128,128,128,129>>,
    <<124,124,124,124,124,124,88,167,161,161,161,125,125,125,125,125,126,126,126,126,126,127,127,127,127,127,128,128,128,128,128,129>>,
    <<124,124,124,124,124,124,88,167,167,161,161,125,125,125,125,125,126,126,126,126,126,127,127,127,127,127,128,128,128,128,128,129>>,
    <<124,124,124,124,124,88,88,167,167,167,167,125,125,125,125,125,125,126,126,126,126,126,127,127,127,127,127,128,128,128,128,128>>,
    <<124,124,124,124,124,88,167,167,167,167,167,168,168,125,125,125,125,169,126,126,126,126,170,127,127,127,127,171,128,128,128,128>>,
    <<166,166,124,124,124,88,167,167,167,167,167,167,168,168,168,168,169,169,169,169,169,126,170,170,170,127,127,171,171,171,128,128>>,
    <<166,166,166,166,130,88,167,167,167,167,167,167,168,168,168,168,168,169,169,169,169,133,170,170,170,170,134,171,171,171,135,135>>,
    <<166,130,130,130,130,130,167,167,167,167,167,131,131,168,168,168,132,132,169,169,169,133,133,170,170,134,134,134,171,171,135,135>>,
    <<130,130,130,130,130,130,130,167,167,167,131,131,131,131,168,132,132,132,132,169,133,133,133,133,134,134,134,134,134,135,135,135>>,
    <<130,130,130,130,130,130,130,173,173,131,131,131,131,131,131,132,132,132,132,132,133,133,133,133,133,134,134,134,134,134,135,135>>,
    <<130,130,130,130,130,130,130,173,173,173,173,131,131,131,131,131,132,132,132,132,132,133,133,133,133,133,134,134,134,134,134,135>>,
    <<130,130,130,130,130,130,130,173,173,173,173,173,131,131,131,131,131,132,132,132,132,132,133,133,133,133,133,134,134,134,134,134>>,
    <<172,172,130,130,130,130,130,173,173,173,173,173,137,131,174,174,174,138,175,175,175,139,139,176,176,176,140,140,177,177,141,141>>,
    <<136,136,136,136,136,136,94,94,173,137,137,137,137,137,138,138,138,138,138,139,139,139,139,139,140,140,140,140,140,141,141,141>>,
    <<136,136,136,136,136,136,136,179,179,137,137,137,137,137,137,138,138,138,138,138,139,139,139,139,139,140,140,140,140,140,141,141>>,
    <<136,136,136,136,136,136,136,179,179,179,137,137,137,137,137,137,138,138,138,138,138,139,139,139,139,139,140,140,140,140,140,141>>,
    <<136,136,136,136,136,136,136,179,179,179,179,179,137,137,137,137,137,138,138,138,138,138,139,139,139,139,139,140,140,140,140,140>>,
    <<178,178,178,136,136,136,136,136,179,179,179,179,179,180,180,180,180,180,181,181,181,248,248,182,182,182,182,182,147,147,183,183>>,
    <<142,142,142,142,142,142,142,100,143,143,143,143,143,143,144,144,144,144,144,248,248,145,145,145,146,146,146,146,146,147,147,147>>,
    <<142,142,142,142,142,142,142,142,185,143,143,143,143,143,143,144,144,144,144,144,249,249,249,249,249,146,146,146,146,146,147,147>>,
    <<142,142,142,142,142,142,142,142,185,185,143,143,143,143,143,143,144,144,144,144,144,249,250,250,250,250,146,146,146,146,146,147>>,
    <<142,142,142,142,142,142,142,142,185,185,185,185,143,143,143,143,143,144,144,144,144,144,250,250,250,250,250,146,146,146,146,146>>,
    <<184,184,184,142,142,142,142,142,185,185,185,185,185,186,186,186,186,186,144,187,187,187,187,251,251,251,251,251,153,153,153,189>>,
    <<148,148,148,148,148,148,148,148,149,149,149,149,149,149,150,150,150,150,150,151,151,151,151,151,152,152,152,152,152,153,153,153>>,
    <<148,148,148,148,148,148,148,148,148,149,149,149,149,149,149,150,150,150,150,150,151,151,151,151,151,152,152,152,152,152,153,153>>,
    <<148,148,148,148,148,148,148,148,148,191,149,149,149,149,149,149,150,150,150,150,150,151,151,151,151,151,152,152,152,152,152,153>>,
    <<148,148,148,148,148,148,148,148,191,191,191,191,149,149,149,149,149,150,150,150,150,150,151,151,151,151,151,152,152,152,152,152>>,
    <<190,190,190,190,148,148,148,148,191,191,191,191,191,192,192,192,192,192,150,193,193,193,193,158,158,194,194,194,159,159,159,195>>,
    <<154,154,154,154,154,154,154,154,155,155,155,155,155,155,156,156,156,156,156,157,157,157,157,157,158,158,158,158,158,159,159,159>>
  >>,
  <<
    <<124,124,124,124,124,124,124,161,161,161,161,161,125,125,125,162,162,126,126,126,163,163,127,127,127,164,164,128,128,128,165,165>>,
    <<124,124,124,124,124,124,124,161,161,161,161,161,125,125,125,162,162,126,126,126,163,163,127,127,127,164,164,128,128,128,165,165>>,
    <<124,124,124,124,124,124,124,161,161,161,161,161,125,125,125,162,162,126,126,126,163,163,127,127,127,164,164,128,128,128,165,165>>,
    <<124,124,124,124,124,124,124,161,161,161,161,161,125,125,125,125,162,126,126,126,126,163,127,127,127,127,164,128,128,128,128,165>>,
    <<124,124,124,124,124,124,124,167,161,161,161,161,125,125,125,125,162,126,126,126,126,163,127,127,127,127,164,128,128,128,128,165>>,
    <<124,124,124,124,124,124,124,167,167,161,161,161,125,125,125,125,125,126,126,126,126,126,127,127,127,127,164,128,128,128,128,165>>,
    <<124,124,124,124,124,124,124,167,167,167,161,161,125,125,125,125,125,126,126,126,126,126,127,127,127,127,127,128,128,128,128,128>>,
    <<124,124,124,124,124,124,124,167,167,167,167,167,168,125,125,125,125,169,169,126,126,126,170,170,127,127,127,171,128,128,128,128>>,
    <<166,166,124,124,124,124,167,167,167,167,167,167,168,168,168,168,125,169,169,169,169,126,170,170,170,170,127,171,171,171,128,128>>,
    <<166,166,166,166,124,124,167,167,167,167,167,167,168,168,168,168,168,169,169,169,169,169,170,170,170,170,170,171,171,171,171,171>>,
    <<166,166,166,166,166,130,167,167,167,167,167,167,167,168,168,168,168,168,169,169,169,169,169,170,170,170,170,170,171,171,171,171>>,
    <<166,166,130,130,130,130,130,167,167,167,167,167,167,131,168,168,168,132,132,169,169,169,133,133,170,170,170,134,134,171,171,171>>,
    <<130,130,130,130,130,130,130,173,173,167,167,131,131,131,131,168,132,132,132,132,169,133,133,133,133,170,134,134,134,134,171,135>>,
    <<130,130,130,130,130,130,130,173,173,173,173,131,131,131,131,131,132,132,132,132,132,133,133,133,133,133,134,134,134,134,134,135>>,
    <<130,130,130,130,130,130,130,173,173,173,173,173,131,131,131,131,174,132,132,132,132,132,133,133,133,133,133,134,134,134,134,134>>,
    <<172,172,130,130,130,130,130,173,173,173,173,173,173,174,174,174,174,174,175,175,175,175,175,176,176,176,176,176,177,177,177,177>>,
    <<172,172,172,172,172,130,130,130,173,173,173,173,173,137,174,174,174,174,138,175,175,175,175,139,176,176,176,176,140,177,177,177>>,
    <<136,136,136,136,136,136,136,179,179,173,137,137,137,137,137,138,138,138,138,138,139,139,139,139,139,140,140,140,140,140,141,141>>,
    <<136,136,136,136,136,136,136,179,179,179,179,137,137,137,137,137,138,138,138,138,138,139,139,139,139,139,140,140,140,140,140,141>>,
    <<136,136,136,136,136,136,136,136,179,179,179,179,137,137,137,137,137,138,138,138,138,138,139,139,139,139,139,140,140,140,140,140>>,
    <<178,178,178,136,136,136,136,136,179,179,179,179,179,180,180,180,180,180,181,181,181,181,181,182,182,182,182,182,183,183,183,183>>,
    <<178,178,178,178,178,178,136,136,179,179,179,179,179,179,180,180,180,180,180,181,181,181,181,181,182,182,182,182,182,183,183,183>>,
    <<142,142,142,142,142,142,142,142,185,143,143,143,143,143,143,144,144,144,144,144,249,249,249,249,249,146,146,146,146,146,147,147>>,
    <<142,142,142,142,142,142,142,142,185,185,143,143,143,143,143,143,144,144,144,144,144,250,250,250,250,250,146,146,146,146,146,147>>,
    <<142,142,142,142,142,142,142,142,185,185,185,185,143,143,143,143,143,144,144,144,144,144,250,250,250,250,251,146,146,146,146,146>>,
    <<184,184,184,184,142,142,142,142,185,185,185,185,185,186,186,186,186,186,187,187,187,187,187,251,251,251,251,251,189,189,189,189>>,
    <<184,184,184,184,184,184,142,142,185,185,185,185,185,185,186,186,186,186,186,187,187,187,187,187,252,252,252,252,252,153,189,189>>,
    <<148,148,148,148,148,148,148,148,148,149,149,149,149,149,149,150,150,150,150,150,151,151,151,151,151,152,152,152,152,152,153,153>>,
    <<148,148,148,148,148,148,148,148,191,191,149,149,149,149,149,149,150,150,150,150,150,151,151,151,151,151,152,152,152,152,152,153>>,
    <<148,148,148,148,148,148,148,148,191,191,191,191,149,149,149,149,149,150,150,150,150,150,151,151,151,151,151,152,152,152,152,152>>,
    <<190,190,190,190,148,148,148,148,191,191,191,191,191,192,192,192,192,192,193,193,193,193,193,194,194,194,194,194,195,195,195,195>>,
    <<190,190,190,190,190,190,190,148,191,191,191,191,191,191,192,192,192,192,192,193,193,193,193,193,158,194,194,194,194,159,195,195>>
  >>,
  <<
    <<160,160,124,124,124,124,124,161,161,161,161,161,161,125,125,162,162,162,126,126,163,163,163,127,127,164,164,164,128,128,165,165>>,
    <<160,160,124,124,124,124,124,161,161,161,161,161,161,125,125,162,162,162,126,126,163,163,163,127,127,164,164,164,128,128,165,165>>,
    <<160,160,124,124,124,124,124,203,161,161,161,161,161,125,125,162,162,162,126,126,163,163,163,127,127,164,164,164,128,128,165,165>>,
    <<160,124,124,124,124,124,124,203,161,161,161,161,161,125,125,162,162,162,126,126,163,163,163,127,127,164,164,164,128,128,165,165>>,
    <<160,124,124,124,124,124,124,203,161,161,161,161,161,125,125,125,162,162,126,126,126,163,163,127,127,127,164,164,128,128,128,165>>,
    <<124,124,124,124,124,124,124,203,203,161,161,161,161,125,125,125,162,162,126,126,126,163,163,127,127,127,164,164,164,128,128,165>>,
    <<124,124,124,124,124,124,124,203,167,167,161,161,161,125,125,125,125,162,126,126,126,126,163,163,127,127,127,164,164,128,128,128>>,
    <<124,124,124,124,124,124,124,203,167,167,167,161,161,168,125,125,125,162,169,126,126,126,163,170,127,127,127,164,164,128,128,128>>,
    <<166,166,124,124,124,124,124,167,167,167,167,167,168,168,168,168,125,169,169,169,169,126,170,170,170,170,127,171,171,171,171,128>>,
    <<166,166,166,166,124,124,124,167,167,167,167,167,167,168,168,168,168,168,169,169,169,169,170,170,170,170,170,171,171,171,171,171>>,
    <<166,166,166,166,166,166,209,167,167,167,167,167,167,168,168,168,168,168,169,169,169,169,169,170,170,170,170,170,171,171,171,171>>,
    <<166,166,166,166,166,166,209,167,167,167,167,167,167,167,168,168,168,168,168,169,169,169,169,169,170,170,170,170,170,171,171,171>>,
    <<166,166,166,166,130,130,130,209,167,167,167,167,167,167,131,168,168,168,168,132,169,169,169,169,133,170,170,170,170,134,171,171>>,
    <<130,130,130,130,130,130,130,173,173,173,167,167,167,131,131,131,168,168,132,132,132,169,169,133,133,133,170,170,134,134,134,171>>,
    <<130,130,130,130,130,130,130,173,173,173,173,173,131,131,131,174,174,132,132,132,132,175,133,133,133,133,133,134,134,134,134,134>>,
    <<172,172,172,130,130,130,130,130,173,173,173,173,173,174,174,174,174,174,175,175,175,175,175,176,176,176,176,176,177,177,177,177>>,
    <<172,172,172,172,172,130,130,130,173,173,173,173,173,173,174,174,174,174,174,175,175,175,175,175,176,176,176,176,176,177,177,177>>,
    <<172,172,172,172,172,172,136,215,173,173,173,173,173,173,173,174,174,174,174,174,175,175,175,175,175,176,176,176,176,176,177,177>>,
    <<136,136,136,136,136,136,136,136,179,179,179,173,137,137,137,137,174,138,138,138,138,175,139,139,139,139,176,140,140,140,140,177>>,
    <<136,136,136,136,136,136,136,136,179,179,179,179,137,137,137,137,180,138,138,138,138,181,139,139,139,139,139,140,140,140,140,140>>,
    <<178,178,178,178,136,136,136,136,179,179,179,179,179,180,180,180,180,180,181,181,181,181,181,182,182,182,182,182,183,183,183,183>>,
    <<178,178,178,178,178,178,136,136,179,179,179,179,179,179,180,180,180,180,180,181,181,181,181,181,182,182,182,182,182,183,183,183>>,
    <<178,178,178,178,178,178,178,178,179,179,179,179,179,179,179,180,180,180,180,180,181,181,181,181,181,182,182,182,182,182,183,183>>,
    <<142,142,142,142,142,142,142,142,185,185,185,143,143,143,143,143,144,144,144,144,144,250,250,250,250,250,146,146,146,146,146,147>>,
    <<142,142,142,142,142,142,142,142,185,185,185,185,143,143,143,143,186,144,144,144,144,187,250,251,251,251,251,146,146,146,146,146>>,
    <<184,184,184,184,142,142,142,142,185,185,185,185,185,186,186,186,186,186,187,187,187,187,187,251,251,251,251,251,189,189,189,189>>,
    <<184,184,184,184,184,184,184,142,185,185,185,185,185,185,186,186,186,186,186,187,187,187,187,187,252,252,252,252,252,189,189,189>>,
    <<184,184,184,184,184,184,184,184,185,185,185,185,185,185,185,186,186,186,186,186,187,187,187,187,187,188,188,188,188,188,189,189>>,
    <<148,148,148,148,148,148,148,148,191,191,149,149,149,149,149,149,150,150,150,150,150,151,151,151,151,151,152,152,152,152,152,153>>,
    <<148,148,148,148,148,148,148,148,191,191,191,191,149,149,149,149,192,150,150,150,193,193,151,151,151,151,194,152,152,152,152,195>>,
    <<190,190,190,190,190,148,148,148,191,191,191,191,191,192,192,192,192,192,193,193,193,193,193,194,194,194,194,194,195,195,195,195>>,
    <<190,190,190,190,190,190,190,191,191,191,191,191,191,191,192,192,192,192,192,193,193,193,193,193,194,194,194,194,194,195,195,195>>
  >>,
  <<
    <<160,160,160,160,124,124,124,197,197,161,161,161,161,161,125,162,162,162,162,163,163,163,163,163,164,164,164,164,164,165,165,165>>,
    <<160,160,160,160,124,124,124,197,197,161,161,161,161,161,125,162,162,162,162,126,163,163,163,163,163,164,164,164,164,164,165,165>>,
    <<160,160,160,160,124,124,124,203,197,161,161,161,161,161,125,162,162,162,162,126,163,163,163,163,163,164,164,164,164,164,165,165>>,
    <<160,160,160,124,124,124,124,203,197,161,161,161,161,161,125,162,162,162,162,126,163,163,163,163,163,164,164,164,164,164,165,165>>,
    <<160,160,160,124,124,124,124,203,203,161,161,161,161,161,125,125,162,162,162,162,163,163,163,163,163,164,164,164,164,164,165,165>>,
    <<160,160,160,124,124,124,124,203,203,161,161,161,161,161,125,125,162,162,162,162,126,163,163,163,163,127,164,164,164,164,128,165>>,
    <<160,160,124,124,124,124,124,203,203,203,161,161,161,161,125,125,125,162,162,162,126,126,163,163,163,127,164,164,164,164,128,165>>,
    <<160,160,124,124,124,124,124,203,203,167,167,161,161,161,125,125,125,162,162,162,126,126,163,163,163,127,127,164,164,164,128,128>>,
    <<166,166,124,124,124,124,124,203,203,167,167,167,204,168,168,168,125,125,169,169,169,126,126,170,170,170,127,171,171,171,171,128>>,
    <<166,166,166,166,124,124,124,203,167,167,167,167,167,168,168,168,168,168,169,169,169,169,169,170,170,170,170,170,171,171,171,171>>,
    <<166,166,166,166,166,166,209,167,167,167,167,167,167,167,168,168,168,168,169,169,169,169,169,170,170,170,170,170,171,171,171,171>>,
    <<166,166,166,166,166,166,209,209,167,167,167,167,167,167,168,168,168,168,168,169,169,169,169,169,170,170,170,170,170,171,171,171>>,
    <<166,166,166,166,166,166,209,209,209,167,167,167,167,167,167,168,168,168,168,168,169,169,169,169,169,170,170,170,170,170,171,171>>,
    <<166,166,166,166,166,130,130,209,209,173,167,167,167,167,167,168,168,168,168,168,169,169,169,169,169,170,170,170,170,170,170,171>>,
    <<166,130,130,130,130,130,130,130,173,173,173,173,167,167,174,174,174,168,168,175,175,175,169,169,176,176,176,170,170,177,177,177>>,
    <<172,172,172,172,130,130,130,130,173,173,173,173,173,174,174,174,174,174,175,175,175,175,175,176,176,176,176,176,177,177,177,177>>,
    <<172,172,172,172,172,172,130,130,173,173,173,173,173,173,174,174,174,174,174,175,175,175,175,175,176,176,176,176,176,177,177,177>>,
    <<172,172,172,172,172,172,172,215,215,173,173,173,173,173,173,174,174,174,174,174,175,175,175,175,175,176,176,176,176,176,177,177>>,
    <<172,172,172,172,172,172,172,215,215,215,173,173,173,173,173,173,174,174,174,174,174,175,175,175,175,175,176,176,176,176,176,177>>,
    <<136,136,136,136,136,136,136,136,179,179,179,179,173,137,137,180,180,174,138,181,181,181,175,182,182,182,182,176,183,183,183,183>>,
    <<178,178,178,178,136,136,136,136,179,179,179,179,179,180,180,180,180,180,181,181,181,181,181,182,182,182,182,182,183,183,183,183>>,
    <<178,178,178,178,178,178,136,136,179,179,179,179,179,179,180,180,180,180,180,181,181,181,181,181,182,182,182,182,182,183,183,183>>,
    <<178,178,178,178,178,178,178,178,179,179,179,179,179,179,179,180,180,180,180,180,181,181,181,181,181,182,182,182,182,182,183,183>>,
    <<178,178,178,178,178,178,178,178,221,221,179,179,179,179,179,179,180,180,180,180,180,181,181,181,181,181,182,182,182,182,182,183>>,
    <<142,142,142,142,142,142,142,142,185,185,185,185,143,143,186,186,186,144,144,187,187,187,251,251,251,251,251,189,189,189,189,189>>,
    <<184,184,184,184,184,142,142,142,185,185,185,185,185,186,186,186,186,186,187,187,187,187,187,251,251,251,251,251,189,189,189,189>>,
    <<184,184,184,184,184,184,184,142,185,185,185,185,185,185,186,186,186,186,186,187,187,187,187,187,252,252,252,252,252,189,189,189>>,
    <<184,184,184,184,184,184,184,184,185,185,185,185,185,185,185,186,186,186,186,186,187,187,187,187,187,188,188,188,188,188,189,189>>,
    <<184,184,184,184,184,184,184,184,184,191,185,185,185,185,185,185,186,186,186,186,186,187,187,187,187,187,253,253,253,253,253,189>>,
    <<148,148,148,148,148,148,148,148,191,191,191,191,149,149,192,192,192,150,150,193,193,193,151,151,194,194,194,152,254,254,254,254>>,
    <<190,190,190,190,190,148,148,148,191,191,191,191,191,192,192,192,192,192,193,193,193,193,193,194,194,194,194,194,195,195,195,195>>,
    <<190,190,190,190,190,190,190,190,191,191,191,191,191,191,192,192,192,192,192,193,193,193,193,193,194,194,194,194,194,195,195,195>>
  >>,
  <<
    <<160,160,160,160,160,124,124,197,197,197,161,161,161,161,161,162,162,162,162,162,163,163,163,163,163,164,164,164,164,164,165,165>>,
    <<160,160,160,160,160,124,124,197,197,197,161,161,161,161,161,162,162,162,162,162,163,163,163,163,163,164,164,164,164,164,165,165>>,
    <<160,160,160,160,160,124,124,203,197,197,161,161,161,161,161,162,162,162,162,162,163,163,163,163,163,164,164,164,164,164,165,165>>,
    <<160,160,160,160,160,124,124,203,197,197,161,161,161,161,161,162,162,162,162,162,163,163,163,163,163,164,164,164,164,164,165,165>>,
    <<160,160,160,160,160,124,124,203,203,197,161,161,161,161,161,162,162,162,162,162,163,163,163,163,163,163,164,164,164,164,164,165>>,
    <<160,160,160,160,160,124,124,203,203,203,161,161,161,161,161,161,162,162,162,162,162,163,163,163,163,163,164,164,164,164,164,165>>,
    <<160,160,160,160,124,124,124,203,203,203,161,161,161,161,161,161,162,162,162,162,162,163,163,163,163,163,164,164,164,164,164,165>>,
    <<160,160,160,160,124,124,124,203,203,203,203,161,161,161,161,161,125,162,162,162,162,126,163,163,163,163,127,164,164,164,164,164>>,
    <<160,160,160,160,124,124,124,203,203,203,203,167,204,204,204,168,168,205,205,162,169,169,206,206,163,170,170,207,164,164,171,171>>,
    <<166,166,166,166,124,124,203,203,203,203,167,167,167,204,204,168,168,168,205,169,169,169,169,206,170,170,170,170,171,171,171,171>>,
    <<166,166,166,166,166,166,203,203,203,167,167,167,167,167,168,168,168,168,168,169,169,169,169,169,170,170,170,170,170,171,171,171>>,
    <<166,166,166,166,166,166,166,209,203,167,167,167,167,167,168,168,168,168,168,169,169,169,169,169,170,170,170,170,170,171,171,171>>,
    <<166,166,166,166,166,166,166,209,209,167,167,167,167,167,167,168,168,168,168,168,169,169,169,169,169,170,170,170,170,170,171,171>>,
    <<166,166,166,166,166,166,166,209,209,209,167,167,167,167,167,167,168,168,168,168,168,169,169,169,169,169,170,170,170,170,170,171>>,
    <<166,166,166,166,166,166,130,209,209,209,209,167,167,167,167,167,168,168,168,168,168,175,169,169,169,169,176,170,170,170,170,177>>,
    <<172,172,172,172,130,130,130,130,209,173,173,173,173,167,174,174,174,174,168,175,175,175,175,169,176,176,176,176,177,177,177,177>>,
    <<172,172,172,172,172,172,130,130,173,173,173,173,173,173,174,174,174,174,174,175,175,175,175,175,176,176,176,176,176,177,177,177>>,
    <<172,172,172,172,172,172,172,215,215,173,173,173,173,173,173,174,174,174,174,174,175,175,175,175,175,176,176,176,176,176,177,177>>,
    <<172,172,172,172,172,172,172,215,215,215,173,173,173,173,173,173,174,174,174,174,174,175,175,175,175,175,176,176,176,176,176,177>>,
    <<172,172,172,172,172,172,172,215,215,215,215,173,173,173,173,173,180,174,174,174,174,174,175,175,175,175,175,176,176,176,176,176>>,
    <<178,178,178,178,178,136,136,136,179,179,179,179,179,180,180,180,180,180,181,181,181,181,181,182,182,182,182,182,183,183,183,183>>,
    <<178,178,178,178,178,178,178,136,179,179,179,179,179,179,180,180,180,180,180,181,181,181,181,181,182,182,182,182,182,183,183,183>>,
    <<178,178,178,178,178,178,178,178,221,179,179,179,179,179,179,180,180,180,180,180,181,181,181,181,181,182,182,182,182,182,183,183>>,
    <<178,178,178,178,178,178,178,178,221,221,179,179,179,179,179,179,180,180,180,180,180,181,181,181,181,181,182,182,182,182,182,183>>,
    <<178,178,178,178,178,178,178,178,221,221,221,179,179,179,179,179,179,180,180,180,180,180,181,181,181,181,181,182,182,182,182,182>>,
    <<184,184,184,184,184,142,142,142,185,185,185,185,185,186,186,186,186,186,187,187,187,187,187,251,252,252,252,252,189,189,189,189>>,
    <<184,184,184,184,184,184,184,142,185,185,185,185,185,185,186,186,186,186,186,187,187,187,187,187,252,252,252,252,252,189,189,189>>,
    <<184,184,184,184,184,184,184,184,184,185,185,185,185,185,185,186,186,186,186,186,187,187,187,187,187,188,188,188,253,253,189,189>>,
    <<184,184,184,184,184,184,184,184,184,227,185,185,185,185,185,185,186,186,186,186,186,187,187,187,187,187,253,253,253,253,254,189>>,
    <<184,184,184,184,184,184,184,184,227,227,227,185,185,185,185,185,185,186,186,186,186,186,187,187,187,187,187,254,254,254,254,254>>,
    <<190,190,190,190,190,148,148,191,191,191,191,191,191,192,192,192,192,192,193,193,193,193,193,194,194,194,194,194,195,195,195,195>>,
    <<190,190,190,190,190,190,190,190,191,191,191,191,191,191,192,192,192,192,192,193,193,193,193,193,194,194,194,194,194,195,195,195>>
  >>,
  <<
    <<160,160,160,160,160,160,160,197,197,197,197,161,161,161,161,198,162,162,162,162,199,163,163,163,163,200,164,164,164,164,165,165>>,
    <<160,160,160,160,160,160,160,197,197,197,197,161,161,161,161,198,162,162,162,162,199,163,163,163,163,200,164,164,164,164,201,165>>,
    <<160,160,160,160,160,160,160,197,197,197,197,161,161,161,161,198,162,162,162,162,199,163,163,163,163,200,164,164,164,164,201,165>>,
    <<160,160,160,160,160,160,160,203,197,197,197,161,161,161,161,161,162,162,162,162,162,163,163,163,163,163,164,164,164,164,164,165>>,
    <<160,160,160,160,160,160,160,203,203,197,197,161,161,161,161,161,162,162,162,162,162,163,163,163,163,163,164,164,164,164,164,165>>,
    <<160,160,160,160,160,160,124,203,203,203,197,161,161,161,161,161,162,162,162,162,162,163,163,163,163,163,164,164,164,164,164,165>>,
    <<160,160,160,160,160,160,124,203,203,203,203,161,161,161,161,161,162,162,162,162,162,163,163,163,163,163,163,164,164,164,164,164>>,
    <<160,160,160,160,160,160,124,203,203,203,203,161,161,161,161,161,161,162,162,162,162,162,163,163,163,163,163,164,164,164,164,164>>,
    <<202,160,160,160,160,124,124,203,203,203,203,203,204,204,204,204,204,205,205,205,162,162,206,206,163,163,163,207,207,164,164,164>>,
    <<202,202,202,166,160,124,203,203,203,203,203,203,204,204,204,204,168,205,205,205,205,169,206,206,206,206,170,170,207,207,171,171>>,
    <<166,166,166,166,166,166,203,203,203,203,203,167,167,204,204,204,168,168,205,205,205,169,169,206,206,170,170,170,207,207,171,171>>,
    <<166,166,166,166,166,166,166,203,203,203,167,167,167,167,204,168,168,168,168,205,169,169,169,169,206,170,170,170,170,207,171,171>>,
    <<166,166,166,166,166,166,166,209,209,209,167,167,167,167,167,168,168,168,168,168,169,169,169,169,169,170,170,170,170,170,171,171>>,
    <<166,166,166,166,166,166,166,209,209,209,209,167,167,167,167,167,168,168,168,168,168,169,169,169,169,169,170,170,170,170,170,171>>,
    <<166,166,166,166,166,166,166,209,209,209,209,167,167,167,167,167,210,168,168,168,168,168,169,169,169,169,169,170,170,170,170,170>>,
    <<208,166,166,166,166,166,166,209,209,209,209,209,173,167,210,210,174,174,168,168,211,175,175,169,169,212,176,176,170,170,177,177>>,
    <<172,172,172,172,172,172,130,130,209,209,173,173,173,173,210,174,174,174,174,175,175,175,175,175,176,176,176,176,176,177,177,177>>,
    <<172,172,172,172,172,172,172,215,215,173,173,173,173,173,173,174,174,174,174,174,175,175,175,175,175,176,176,176,176,176,177,177>>,
    <<172,172,172,172,172,172,172,215,215,215,173,173,173,173,173,173,174,174,174,174,174,175,175,175,175,175,176,176,176,176,176,177>>,
    <<172,172,172,172,172,172,172,215,215,215,215,215,173,173,173,173,173,174,174,174,174,174,175,175,175,175,175,176,176,176,176,176>>,
    <<214,214,172,172,172,172,172,215,215,215,215,215,179,216,216,216,216,180,217,217,217,217,181,218,218,218,182,182,219,219,219,183>>,
    <<178,178,178,178,178,178,178,136,215,179,179,179,179,179,180,180,180,180,180,181,181,181,181,181,182,182,182,182,182,183,183,183>>,
    <<178,178,178,178,178,178,178,178,221,179,179,179,179,179,179,180,180,180,180,180,181,181,181,181,181,182,182,182,182,182,183,183>>,
    <<178,178,178,178,178,178,178,178,221,221,179,179,179,179,179,179,180,180,180,180,180,181,181,181,181,181,182,182,182,182,182,183>>,
    <<178,178,178,178,178,178,178,178,221,221,221,221,179,179,179,179,179,180,180,180,180,180,181,181,181,181,181,182,182,182,182,182>>,
    <<220,220,220,178,178,178,178,178,221,221,221,221,221,222,222,222,222,222,223,223,223,223,223,224,224,224,252,252,225,225,225,225>>,
    <<184,184,184,184,184,184,184,184,185,185,185,185,185,185,186,186,186,186,186,187,187,187,187,187,252,252,188,188,188,189,189,189>>,
    <<184,184,184,184,184,184,184,184,184,185,185,185,185,185,185,186,186,186,186,186,187,187,187,187,187,253,253,253,253,253,189,189>>,
    <<184,184,184,184,184,184,184,184,184,227,185,185,185,185,185,185,186,186,186,186,186,187,187,187,187,187,253,254,254,254,254,189>>,
    <<184,184,184,184,184,184,184,184,227,227,227,227,185,185,185,185,185,186,186,186,186,186,187,187,187,187,187,254,254,254,254,254>>,
    <<226,226,226,226,184,184,184,184,227,227,227,227,227,228,228,228,228,228,186,229,229,229,229,187,230,230,230,230,255,255,255,255>>,
    <<190,190,190,190,190,190,190,190,191,191,191,191,191,191,192,192,192,192,192,193,193,193,193,193,194,194,194,194,194,195,195,195>>
  >>,
  <<
    <<160,160,160,160,160,160,160,197,197,197,197,197,161,161,161,198,198,162,162,162,199,199,163,163,163,200,200,164,164,164,201,201>>,
    <<160,160,160,160,160,160,160,197,197,197,197,197,161,161,161,198,198,162,162,162,199,199,163,163,163,200,200,164,164,164,201,201>>,
    <<160,160,160,160,160,160,160,197,197,197,197,197,161,161,161,198,198,162,162,162,199,199,163,163,163,200,200,164,164,164,201,201>>,
    <<160,160,160,160,160,160,160,203,197,197,197,197,161,161,161,198,198,162,162,162,199,199,163,163,163,163,200,164,164,164,201,201>>,
    <<160,160,160,160,160,160,160,203,203,197,197,197,161,161,161,161,198,162,162,162,162,199,163,163,163,163,200,164,164,164,164,201>>,
    <<160,160,160,160,160,160,160,203,203,197,197,197,161,161,161,161,198,162,162,162,162,199,163,163,163,163,200,164,164,164,164,201>>,
    <<160,160,160,160,160,160,160,203,203,203,197,197,161,161,161,161,161,162,162,162,162,162,163,163,163,163,163,164,164,164,164,164>>,
    <<160,160,160,160,160,160,160,203,203,203,203,203,161,161,161,161,161,162,162,162,162,162,206,163,163,163,163,207,164,164,164,164>>,
    <<202,160,160,160,160,160,160,203,203,203,203,203,204,204,204,204,204,205,205,205,205,162,206,206,206,163,163,207,207,207,164,164>>,
    <<202,202,202,160,160,160,160,203,203,203,203,203,203,204,204,204,204,205,205,205,205,205,206,206,206,206,206,207,207,207,207,207>>,
    <<202,202,202,202,166,166,203,203,203,203,203,203,203,204,204,204,204,204,205,205,205,205,205,206,206,206,206,170,207,207,207,207>>,
    <<202,202,166,166,166,166,166,203,203,203,203,203,167,167,204,204,204,168,168,205,205,205,169,169,206,206,206,170,170,207,207,207>>,
    <<166,166,166,166,166,166,166,209,209,203,203,203,167,167,167,204,204,168,168,168,205,205,169,169,169,206,206,170,170,170,207,171>>,
    <<166,166,166,166,166,166,166,209,209,209,209,167,167,167,167,167,168,168,168,168,168,169,169,169,169,169,170,170,170,170,170,171>>,
    <<166,166,166,166,166,166,166,209,209,209,209,209,167,167,167,167,210,168,168,168,168,211,169,169,169,169,169,170,170,170,170,170>>,
    <<208,208,166,166,166,166,166,209,209,209,209,209,209,167,210,210,210,210,211,211,211,211,211,212,212,212,212,212,213,213,213,213>>,
    <<208,208,208,208,172,166,166,166,209,209,209,209,209,173,210,210,210,210,174,211,211,211,211,175,212,212,212,176,176,213,213,213>>,
    <<172,172,172,172,172,172,172,172,215,209,209,173,173,173,173,210,174,174,174,174,211,175,175,175,175,212,176,176,176,176,213,177>>,
    <<172,172,172,172,172,172,172,172,215,215,215,173,173,173,173,173,174,174,174,174,174,175,175,175,175,175,176,176,176,176,176,177>>,
    <<172,172,172,172,172,172,172,172,215,215,215,215,173,173,173,173,216,174,174,174,174,174,175,175,175,175,175,176,176,176,176,176>>,
    <<214,214,214,172,172,172,172,172,215,215,215,215,215,216,216,216,216,216,217,217,217,217,217,218,218,218,218,218,219,219,219,219>>,
    <<214,214,214,214,214,214,172,172,215,215,215,215,215,215,216,216,216,216,216,217,217,217,217,217,218,218,218,218,218,219,219,219>>,
    <<178,178,178,178,178,178,178,178,221,215,179,179,179,179,179,180,180,180,180,180,181,181,181,181,181,182,182,182,182,182,183,183>>,
    <<178,178,178,178,178,178,178,178,221,221,179,179,179,179,179,179,180,180,180,180,180,181,181,181,181,181,182,182,182,182,182,183>>,
    <<178,178,178,178,178,178,178,178,221,221,221,221,179,179,179,179,179,180,180,180,180,180,181,181,181,181,181,182,182,182,182,182>>,
    <<220,220,220,220,178,178,178,178,221,221,221,221,221,222,222,222,222,222,223,223,223,223,223,224,224,224,224,224,225,225,225,225>>,
    <<220,220,220,220,220,220,220,178,221,221,221,221,221,221,222,222,222,222,222,223,223,223,223,223,224,224,224,224,224,225,225,225>>,
    <<184,184,184,184,184,184,184,184,184,185,185,185,185,185,185,186,186,186,186,186,187,187,187,187,187,253,253,253,253,253,189,189>>,
    <<184,184,184,184,184,184,184,184,184,227,185,185,185,185,185,185,186,186,186,186,186,187,187,187,187,187,254,254,254,254,254,189>>,
    <<184,184,184,184,184,184,184,184,227,227,227,227,185,185,185,185,185,186,186,186,186,186,187,187,187,187,187,254,254,254,254,255>>,
    <<226,226,226,226,184,184,184,184,227,227,227,227,227,228,228,228,228,228,229,229,229,229,229,230,230,230,230,230,255,255,255,255>>,
    <<226,226,226,226,226,226,226,227,227,227,227,227,227,227,228,228,228,228,228,229,229,229,229,229,230,230,230,230,230,255,255,255>>
  >>,
  <<
    <<196,196,160,160,160,160,160,197,197,197,197,197,197,161,161,198,198,198,162,162,199,199,199,163,163,200,200,200,164,164,201,201>>,
    <<196,196,160,160,160,160,160,197,197,197,197,197,197,161,161,198,198,198,162,162,199,199,199,163,163,200,200,200,164,164,201,201>>,
    <<196,196,160,160,160,160,160,160,197,197,197,197,197,161,161,198,198,198,162,162,199,199,199,163,163,200,200,200,164,164,201,201>>,
    <<196,196,160,160,160,160,160,160,197,197,197,197,197,161,161,198,198,198,162,162,199,199,199,163,163,200,200,200,164,164,201,201>>,
    <<196,160,160,160,160,160,160,160,197,197,197,197,197,161,161,161,198,198,162,162,162,199,199,163,163,163,200,200,164,164,164,201>>,
    <<196,160,160,160,160,160,160,160,203,197,197,197,197,161,161,161,198,198,162,162,162,199,199,163,163,163,200,200,164,164,164,201>>,
    <<160,160,160,160,160,160,160,203,203,203,197,197,197,161,161,161,198,198,162,162,162,199,199,163,163,163,200,200,200,164,164,201>>,
    <<160,160,160,160,160,160,160,203,203,203,203,197,197,161,161,161,161,198,162,162,162,162,199,206,163,163,163,200,207,164,164,164>>,
    <<202,202,160,160,160,160,160,203,203,203,203,203,203,204,204,204,204,205,205,205,205,162,206,206,206,206,163,207,207,207,207,164>>,
    <<202,202,202,202,160,160,160,203,203,203,203,203,203,204,204,204,204,204,205,205,205,205,205,206,206,206,206,206,207,207,207,207>>,
    <<202,202,202,202,202,160,160,203,203,203,203,203,203,204,204,204,204,204,205,205,205,205,205,206,206,206,206,206,207,207,207,207>>,
    <<202,202,202,202,202,202,166,203,203,203,203,203,203,203,204,204,204,204,204,205,205,205,205,205,206,206,206,206,206,207,207,207>>,
    <<202,202,202,202,166,166,166,209,203,203,203,203,203,203,167,204,204,204,204,168,205,205,205,205,169,206,206,206,206,170,207,207>>,
    <<166,166,166,166,166,166,166,166,209,209,203,203,203,167,167,167,204,204,168,168,168,205,205,169,169,169,206,206,170,170,170,207>>,
    <<166,166,166,166,166,166,166,166,209,209,209,209,167,167,167,210,210,168,168,168,211,211,169,169,169,212,212,206,170,170,213,213>>,
    <<208,208,208,166,166,166,166,166,209,209,209,209,209,210,210,210,210,210,211,211,211,211,211,212,212,212,212,212,213,213,213,213>>,
    <<208,208,208,208,208,166,166,166,209,209,209,209,209,209,210,210,210,210,210,211,211,211,211,211,212,212,212,212,212,213,213,213>>,
    <<208,208,208,208,208,172,172,172,209,209,209,209,209,209,173,210,210,210,210,174,211,211,211,211,175,212,212,212,212,176,213,213>>,
    <<172,172,172,172,172,172,172,172,215,215,209,209,173,173,173,173,210,174,174,174,174,211,175,175,175,175,212,212,176,176,176,213>>,
    <<172,172,172,172,172,172,172,172,215,215,215,215,173,173,173,173,216,174,174,174,174,217,175,175,175,175,175,176,176,176,176,176>>,
    <<214,214,214,214,172,172,172,172,215,215,215,215,215,216,216,216,216,216,217,217,217,217,217,218,218,218,218,218,219,219,219,219>>,
    <<214,214,214,214,214,214,172,172,215,215,215,215,215,215,216,216,216,216,216,217,217,217,217,217,218,218,218,218,218,219,219,219>>,
    <<214,214,214,214,214,214,214,178,215,215,215,215,215,215,215,216,216,216,216,216,217,217,217,217,217,218,218,218,218,218,219,219>>,
    <<178,178,178,178,178,178,178,178,221,221,221,179,179,179,179,179,216,180,180,180,180,181,181,181,181,181,182,182,182,182,182,183>>,
    <<178,178,178,178,178,178,178,178,221,221,221,221,179,179,179,179,222,180,180,180,180,223,181,181,181,181,224,182,182,182,182,182>>,
    <<220,220,220,220,178,178,178,178,221,221,221,221,221,222,222,222,222,222,223,223,223,223,223,224,224,224,224,224,225,225,225,225>>,
    <<220,220,220,220,220,220,220,178,221,221,221,221,221,221,222,222,222,222,222,223,223,223,223,223,224,224,224,224,224,225,225,225>>,
    <<220,220,220,220,220,220,220,220,221,221,221,221,221,221,221,222,222,222,222,222,223,223,223,223,223,224,224,224,224,224,225,225>>,
    <<184,184,184,184,184,184,184,184,184,227,227,185,185,185,185,185,186,186,186,186,186,187,187,187,187,187,254,254,254,254,254,189>>,
    <<184,184,184,184,184,184,184,184,227,227,227,227,185,185,185,185,228,186,186,186,186,229,187,187,187,187,230,254,255,255,255,255>>,
    <<226,226,226,226,226,184,184,184,227,227,227,227,227,228,228,228,228,228,229,229,229,229,229,230,230,230,230,230,255,255,255,255>>,
    <<226,226,226,226,226,226,226,227,227,227,227,227,227,227,228,228,228,228,228,229,229,229,229,229,230,230,230,230,230,255,255,255>>
  >>,
  <<
    <<196,196,196,196,160,160,160,160,197,197,197,197,197,197,161,198,198,198,198,162,199,199,199,199,200,200,200,200,200,201,201,201>>,
    <<196,196,196,196,160,160,160,160,197,197,197,197,197,197,161,198,198,198,198,162,199,199,199,199,163,200,200,200,200,200,201,201>>,
    <<196,196,196,196,160,160,160,160,197,197,197,197,197,197,161,198,198,198,198,162,199,199,199,199,163,200,200,200,200,200,201,201>>,
    <<196,196,196,196,160,160,160,160,197,197,197,197,197,197,161,198,198,198,198,162,199,199,199,199,199,200,200,200,200,200,201,201>>,
    <<196,196,196,196,160,160,160,160,197,197,197,197,197,197,161,198,198,198,198,162,199,199,199,199,199,200,200,200,200,200,201,201>>,
    <<196,196,196,160,160,160,160,160,203,197,197,197,197,197,161,161,198,198,198,162,162,199,199,199,199,163,200,200,200,200,164,201>>,
    <<196,196,196,160,160,160,160,160,203,203,197,197,197,197,161,161,198,198,198,162,162,199,199,199,199,163,200,200,200,200,164,201>>,
    <<196,196,160,160,160,160,160,160,203,203,203,197,197,197,161,161,161,198,198,198,162,162,199,199,199,163,163,200,200,200,164,164>>,
    <<202,202,160,160,160,160,160,160,203,203,203,203,197,197,204,204,204,198,198,205,205,205,199,199,206,206,206,200,200,207,207,207>>,
    <<202,202,202,202,160,160,160,203,203,203,203,203,203,204,204,204,204,204,205,205,205,205,205,206,206,206,206,206,207,207,207,207>>,
    <<202,202,202,202,202,202,160,203,203,203,203,203,203,203,204,204,204,204,204,205,205,205,205,205,206,206,206,206,206,207,207,207>>,
    <<202,202,202,202,202,202,202,203,203,203,203,203,203,203,204,204,204,204,204,205,205,205,205,205,206,206,206,206,206,207,207,207>>,
    <<202,202,202,202,202,202,202,166,203,203,203,203,203,203,203,204,204,204,204,204,205,205,205,205,205,206,206,206,206,206,207,207>>,
    <<202,202,202,202,202,166,166,166,209,209,203,203,203,203,203,204,204,204,204,204,205,205,205,205,205,206,206,206,206,206,207,207>>,
    <<202,202,202,166,166,166,166,166,209,209,209,209,203,203,167,210,210,204,204,211,211,211,205,205,212,212,212,206,206,213,213,213>>,
    <<208,208,208,208,166,166,166,166,209,209,209,209,209,209,210,210,210,210,211,211,211,211,211,212,212,212,212,212,213,213,213,213>>,
    <<208,208,208,208,208,208,166,166,209,209,209,209,209,209,210,210,210,210,210,211,211,211,211,211,212,212,212,212,212,213,213,213>>,
    <<208,208,208,208,208,208,208,166,209,209,209,209,209,209,209,210,210,210,210,210,211,211,211,211,211,212,212,212,212,212,213,213>>,
    <<208,208,208,208,208,208,172,172,215,215,209,209,209,209,209,210,210,210,210,210,211,211,211,211,211,211,212,212,212,212,212,213>>,
    <<214,172,172,172,172,172,172,172,215,215,215,215,209,173,173,216,216,210,210,217,217,217,211,211,218,218,218,212,212,219,219,219>>,
    <<214,214,214,214,172,172,172,172,215,215,215,215,215,216,216,216,216,216,217,217,217,217,217,218,218,218,218,218,219,219,219,219>>,
    <<214,214,214,214,214,214,214,172,215,215,215,215,215,215,216,216,216,216,216,217,217,217,217,217,218,218,218,218,218,219,219,219>>,
    <<214,214,214,214,214,214,214,214,215,215,215,215,215,215,215,216,216,216,216,216,217,217,217,217,217,218,218,218,218,218,219,219>>,
    <<214,214,214,214,214,214,214,214,221,215,215,215,215,215,215,215,216,216,216,216,216,217,217,217,217,217,218,218,218,218,218,219>>,
    <<178,178,178,178,178,178,178,178,221,221,221,221,215,179,179,222,222,216,180,223,223,223,217,224,224,224,224,218,225,225,225,225>>,
    <<220,220,220,220,220,178,178,178,221,221,221,221,221,222,222,222,222,222,223,223,223,223,223,224,224,224,224,224,225,225,225,225>>,
    <<220,220,220,220,220,220,220,178,221,221,221,221,221,221,222,222,222,222,222,223,223,223,223,223,224,224,224,224,224,225,225,225>>,
    <<220,220,220,220,220,220,220,220,221,221,221,221,221,221,221,222,222,222,222,222,223,223,223,223,223,224,224,224,224,224,225,225>>,
    <<220,220,220,220,220,220,220,220,220,221,221,221,221,221,221,221,222,222,222,222,222,223,223,223,223,223,224,224,224,224,224,225>>,
    <<184,184,184,184,184,184,184,184,227,227,227,227,185,185,185,228,228,186,186,229,229,229,187,187,230,230,230,255,255,255,255,255>>,
    <<226,226,226,226,226,184,184,184,227,227,227,227,227,228,228,228,228,228,229,229,229,229,229,230,230,230,230,230,255,255,255,255>>,
    <<226,226,226,226,226,226,226,227,227,227,227,227,227,227,228,228,228,228,228,229,229,229,229,229,230,230,230,230,230,231,231,231>>
  >>
  >>

\* What a list index does in Python: i in -n .. n-1 is an element, anything
\* else raises IndexError.
IndexOk(i, n) == i >= -n /\ i < n

IndexError == -1

\* _rgb_to_256(r, g, b): the table entry, or IndexError when a channel lies
\* outside the table (Python floors r // 8, and wraps a negative index).
_rgb_to_256(r, g, b) ==
    LET ri == r \div _LUT_STEP
        gi == g \div _LUT_STEP
        bi == b \div _LUT_STEP
    IN  IF IndexOk(ri, _LUT_SIZE) /\ IndexOk(gi, _LUT_SIZE) /\ IndexOk(bi, _LUT_SIZE)
        THEN PyIndex(PyIndex(PyIndex(_RGB_TO_256_LUT, ri), gi), bi)
        ELSE IndexError

----------------------------------------------------------------------------
(* Remap tables.  A table is the Python list remap[0..255], held as the     *)
(* sequence remap[1..256]; an index grid is the list of its rows.           *)

NoTable == << >>
NoIndex == 0
NoRgb == << -1, -1, -1 >>
NoImage == [w |-> 0, h |-> 0, kind |-> "none"]

\* A decoded swatch image: its size and what it shows.  "ramp" and "gray" are
\* the two pictures the model knows.
SwatchPixel(sw, x, y) ==
    IF sw.kind = "ramp"
    THEN << (x * 16) % 256, (y * 16) % 256, ((x + y) * 8) % 256 >>
    ELSE LET v == (x * 16 + y) % 256 IN << v, v, v >>

\* pixels[x, y]: PIL raises IndexError outside the image.
InImage(sw, x, y) == x >= 0 /\ x < sw.w /\ y >= 0 /\ y < sw.h

\* The sample point load_lut reads for table slot i.
LutSampleX(sw, i) == (i % 16) * (sw.w \div 16) + ((sw.w \div 16) \div 2)
LutSampleY(sw, i) == (i \div 16) * (sw.h \div 16) + ((sw.h \div 16) \div 2)

\* Whether load_lut raises IndexError on a decoded image: a sample point
\* outside the image.
load_lut_raises(sw) ==
    \E i \in 0..255 : ~ InImage(sw, LutSampleX(sw, i), LutSampleY(sw, i))

\* The table load_lut returns for a decoded image (when it does not raise).
load_lut(sw) ==
    [k \in 1..256 |->
        LET p == SwatchPixel(sw, LutSampleX(sw, k - 1), LutSampleY(sw, k - 1))
        IN  _rgb_to_256(p[1], p[2], p[3])]

\* (r - pr) ** 2 + (g - pg) ** 2 + (b - pb) ** 2
RgbDist(c, p) ==
    (c[1] - p[1]) * (c[1] - p[1]) + (c[2] - p[2]) * (c[2] - p[2])
        + (c[3] - p[3]) * (c[3] - p[3])

\* The inner loop of make_remap from list position j (0-based) on; best_dist
\* is -1 for float("inf").
RECURSIVE NearestInList(_, _, _, _, _)
NearestInList(c, pal, j, best, best_dist) ==
    IF j >= Len(pal)
    THEN best
    ELSE LET d == RgbDist(c, pal[j + 1])
         IN  IF best_dist = -1 \/ d < best_dist
             THEN NearestInList(c, pal, j + 1, j, d)
             ELSE NearestInList(c, pal, j + 1, best, best_dist)

\* The nearest list colour judged by the snapped colours palette_ansi_rgb.
make_remap_snapped(pal) ==
    LET palette_idx == [j \in 1..Len(pal) |-> _rgb_to_256(pal[j][1], pal[j][2], pal[j][3])]
        palette_ansi_rgb == [j \in 1..Len(pal) |-> _idx_to_rgb(palette_idx[j])]
    IN  [k \in 1..256 |->
            palette_idx[NearestInList(_idx_to_rgb(k - 1), palette_ansi_rgb, 0, 0, -1) + 1]]

make_remap(pal) ==
    LET palette_idx == [j \in 1..Len(pal) |-> _rgb_to_256(pal[j][1], pal[j][2], pal[j][3])]
    IN  [k \in 1..256 |->
            palette_idx[NearestInList(_idx_to_rgb(k - 1), pal, 0, 0, -1) + 1]]

\* _apply_remap, as the grid it leaves in place of idx_grid.
_apply_remap(idx_grid, table) ==
    [y \in 1..Len(idx_grid) |->
        [x \in 1..Len(idx_grid[1]) |-> table[idx_grid[y][x] + 1]]]

----------------------------------------------------------------------------
(* Rasters.  A raster is the list of its rows, img[y + 1][x + 1] for the    *)
(* pixel PIL calls pixels[x, y]; each pixel is <<r, g, b>>.                 *)

Width(im) == Len(im[1])
Height(im) == Len(im)

\* PIL stores a channel in 8 bits: a value written outside 0..255 is clipped.
Clip8(v) == Max(0, Min(255, v))

\* Bins re-centred at (factor + 1) // 2 instead of factor // 2.
_posterize_round_up(im, levels) ==
    LET factor == 256 \div levels
        P(v) == Clip8((v \div factor) * factor + (factor + 1) \div 2)
    IN  [y \in 1..Height(im) |->
            [x \in 1..Width(im) |-> << P(im[y][x][1]), P(im[y][x][2]), P(im[y][x][3]) >>]]

_posterize(im, levels) ==
    LET factor == 256 \div levels
        P(v) == Clip8((v \div factor) * factor + factor \div 2)
    IN  [y \in 1..Height(im) |->
            [x \in 1..Width(im) |-> << P(im[y][x][1]), P(im[y][x][2]), P(im[y][x][3]) >>]]

----------------------------------------------------------------------------
(* Floats of the error buffer.  A value is <<whole, frac>>, standing for    *)
(* whole + frac / FracScale with 0 <= frac < FracScale.  Sums, differences  *)
(* and the products e*k/16 of such values are exact in double precision    *)
(* and here as long as no value needs more than seven hexadecimal places,  *)
(* which holds for rasters up to 3 x 3.                                     *)

FracScale == 16^7

Fx(n) == <<n, 0>>

FxAdd(a, b) ==
    LET f == a[2] + b[2]
    IN  << a[1] + b[1] + (f \div FracScale), f % FracScale >>

\* a - n for an integer n
FxSubInt(a, n) == << a[1] - n, a[2] >>

\* a * k // 16: the share cut down to a whole number.
FxMulDiv16Floor(a, k) == << (a[1] * k) \div 16, 0 >>

\* a * k / 16
FxMulDiv16(a, k) ==
    LET wk == a[1] * k
        fk == a[2] * k
        f  == (wk % 16) * (FracScale \div 16) + (fk \div 16)
    IN  << (wk \div 16) + (f \div FracScale), f % FracScale >>

\* round(a): to the nearest integer, a tie to the even one.
FxRound(a) ==
    IF 2 * a[2] < FracScale THEN a[1]
    ELSE IF 2 * a[2] > FracScale THEN a[1] + 1
    ELSE IF a[1] % 2 = 0 THEN a[1] ELSE a[1] + 1

\* The lower clamp alone.
ClampLow(v) == Max(0, v)

\* max(0, min(255, v))
Clamp(v) == Max(0, Min(255, v))

----------------------------------------------------------------------------
(* The loop bodies of _build_idx_grid.  Each takes and returns the record   *)
(* [buf, grid, lookup, raised]: the error buffer (floyd only), the index    *)
(* grid, the arguments of the last table lookup before and after clamping,  *)
(* and the exception raised, if any.                                        *)

NoLookup == [raw |-> << >>, clamped |-> << >>]

\* buf[y][x] += e * k / 16, channel by channel
AddErr(b, x, y, e, k) ==
    [b EXCEPT ![y + 1][x + 1] =
        << FxAdd(@[1], FxMulDiv16(e[1], k)),
           FxAdd(@[2], FxMulDiv16(e[2], k)),
           FxAdd(@[3], FxMulDiv16(e[3], k)) >>]

FloydBody(st, x, y) ==
    LET w  == Width(st.buf)
        h  == Height(st.buf)
        p  == st.buf[y + 1][x + 1]
        raw == << FxRound(p[1]), FxRound(p[2]), FxRound(p[3]) >>
        cr == Clamp(raw[1])
        cg == Clamp(raw[2])
        cb == Clamp(raw[3])
        ix == _rgb_to_256(cr, cg, cb)
        prgb == _idx_to_rgb(ix)
        e  == << FxSubInt(p[1], prgb[1]), FxSubInt(p[2], prgb[2]), FxSubInt(p[3], prgb[3]) >>
        b1 == IF x + 1 < w THEN AddErr(st.buf, x + 1, y, e, 7) ELSE st.buf
        b2 == IF y + 1 < h /\ x - 1 >= 0 THEN AddErr(b1, x - 1, y + 1, e, 3) ELSE b1
        b3 == IF y + 1 < h THEN AddErr(b2, x, y + 1, e, 5) ELSE b2
        b4 == IF y + 1 < h /\ x + 1 < w THEN AddErr(b3, x + 1, y + 1, e, 1) ELSE b3
        lk == [raw |-> raw, clamped |-> <<cr, cg, cb>>]
    IN  IF ix = IndexError
        THEN [st EXCEPT !.lookup = lk, !.raised = "IndexError"]
        ELSE [buf |-> b4,
              grid |-> [st.grid EXCEPT ![y + 1][x + 1] = ix],
              lookup |-> lk,
              raised |-> st.raised]

\* The Bayer matrix, in sixteenths: entry k/16 - 0.5 is held as k - 8.
_BAYER_4x4 ==
    << << 0 - 8,  8 - 8,  2 - 8, 10 - 8>>,
       <<12 - 8,  4 - 8, 14 - 8,  6 - 8>>,
       << 3 - 8, 11 - 8,  1 - 8,  9 - 8>>,
       <<15 - 8,  7 - 8, 13 - 8,  5 - 8>> >>

spread == 32

\* The threshold taken by a running count of the pixels done, not by (y, x).
BayerOffsetByCount(x, y) ==
    (_BAYER_4x4[((pos \div 4) % 4) + 1][(pos % 4) + 1] * spread) \div 16

\* _BAYER_4x4[y % 4][x % 4] * spread, an integer since spread = 32
BayerOffset(x, y) == (_BAYER_4x4[(y % 4) + 1][(x % 4) + 1] * spread) \div 16

OrderedBody(st, im, x, y) ==
    LET p == im[y + 1][x + 1]
        offset == BayerOffset(x, y)
        raw == << p[1] + offset, p[2] + offset, p[3] + offset >>
        cr == Clamp(raw[1])
        cg == Clamp(raw[2])
        cb == Clamp(raw[3])
        ix == _rgb_to_256(cr, cg, cb)
        lk == [raw |-> raw, clamped |-> <<cr, cg, cb>>]
    IN  IF ix = IndexError
        THEN [st EXCEPT !.lookup = lk, !.raised = "IndexError"]
        ELSE [st EXCEPT !.grid[y + 1][x + 1] = ix, !.lookup = lk]

NoneBody(st, im, x, y) ==
    LET p == im[y + 1][x + 1]
        ix == _rgb_to_256(p[1], p[2], p[3])
        lk == [raw |-> p, clamped |-> p]
    IN  IF ix = IndexError
        THEN [st EXCEPT !.lookup = lk, !.raised = "IndexError"]
        ELSE [st EXCEPT !.grid[y + 1][x + 1] = ix, !.lookup = lk]

\* The body the chosen branch runs for pixel (x, y); any dither string other
\* than "floyd" and "ordered" takes the else branch.
PixelBody(st, im, mode, x, y) ==
    IF mode = "floyd" THEN FloydBody(st, x, y)
    ELSE IF mode = "ordered" THEN OrderedBody(st, im, x, y)
    ELSE NoneBody(st, im, x, y)

\* The state a branch starts its loops with: buf is the float copy of the
\* raster in floyd mode, grid is all zeros.
NoBuf == << >>

ScanStart(im, mode) ==
    [buf |-> IF mode = "floyd"
             THEN [y \in 1..Height(im) |->
                     [x \in 1..Width(im) |->
                         << Fx(im[y][x][1]), Fx(im[y][x][2]), Fx(im[y][x][3]) >>]]
             ELSE NoBuf,
     grid |-> [y \in 1..Height(im) |-> [x \in 1..Width(im) |-> 0]],
     lookup |-> NoLookup,
     raised |-> "none"]

\* The nested loops "for y in range(h): for x in range(w)" from pixel number
\* n (row-major) on; an exception ends them.  (The body's result is bound
\* before the next pixel, so that it is computed once.)
RECURSIVE ScanFrom(_, _, _, _)
ScanFrom(st, im, mode, n) ==
    IF n >= Width(im) * Height(im) \/ st.raised # "none"
    THEN st
    ELSE CHOOSE out \in
             { ScanFrom(nxt, im, mode, n + 1) :
                 nxt \in {PixelBody(st, im, mode, n % Width(im), n \div Width(im))} } : TRUE

\* _build_idx_grid(img, dither, remap, poster): the exception raised ("none"
\* when it returns) and the grid returned.
_build_idx_grid(im, mode, table, levels) ==
    LET im1 == IF levels > 0 THEN _posterize(im, levels) ELSE im
        st  == ScanFrom(ScanStart(im1, mode), im1, mode, 0)
    IN  [raised |-> st.raised,
         grid |-> IF st.raised # "none" THEN << >>
                  ELSE IF table # NoTable THEN _apply_remap(st.grid, table)
                  ELSE st.grid]

----------------------------------------------------------------------------
(* The compositor of render_image.  A line is a list of tokens: an escape   *)
(* sequence [esc |-> ...] or one printed character [ch |-> ...].            *)

Esc(code) == [t |-> "esc", code |-> code]
Ch(c) == [t |-> "ch", code |-> c]

white == Esc(<<"48;5;231">>)
reset == Esc(<<"0">>)
black == Esc(<<"38;5;232">>)
border_char == " "
glyph == "▀"

\* s * n for a one-character string s
Times(c, n) == [i \in 1..Max(n, 0) |-> Ch(c)]

\* A caption: None, or a str held as the list of its characters.
NoCaption == [given |-> FALSE, text |-> << >>]
Str(chars) == [given |-> TRUE, text |-> chars]

\* "if caption:" is false for None and for the empty string
Truthy(c) == c.given /\ Len(c.text) > 0

\* The whole string, whatever n.
SliceToAll(s, n) == s

\* s[:n]
SliceTo(s, n) ==
    IF n >= 0 THEN SubSeq(s, 1, Min(n, Len(s))) ELSE SubSeq(s, 1, Max(Len(s) + n, 0))

Text(chars) == [i \in 1..Len(chars) |-> Ch(chars[i])]

\* The size render_image resizes to.
Pad(b) == IF b THEN 1 ELSE 0
Inner(cols, b) == cols - Pad(b) * 2
\* Rows without the rounding up to an even count.
RowsNoPad(cols, b) == Inner(cols, b)
Rows(cols, b) == IF Inner(cols, b) % 2 # 0 THEN Inner(cols, b) + 1 ELSE Inner(cols, b)

\* f"\033[38;5;{fg};48;5;{bg}m{glyph}"
Cell(fg, bg) == << Esc(<<"38;5;", fg, ";48;5;", bg>>), Ch(glyph) >>

RECURSIVE Concat(_)
Concat(ss) == IF ss = << >> THEN << >> ELSE Head(ss) \o Concat(Tail(ss))

\* One image line: rows y and y + 1 of the grid.
ImageLine(idx_grid, cols, b, y) ==
    (IF b THEN <<white>> \o Times(border_char, Pad(b)) ELSE << >>)
    \o Concat([x \in 1..Inner(cols, b) |-> Cell(idx_grid[y + 1][x], idx_grid[y + 2][x])])
    \o (IF b THEN <<white>> \o Times(border_char, Pad(b)) ELSE << >>)
    \o <<reset>>

BlankLine(cols) == <<white>> \o Times(border_char, cols) \o <<reset>>

\* The caption line of the band.
CaptionLine(cols, b, cap) ==
    LET text == SliceTo(cap.text, cols - Pad(b) * 2)
        padding == cols - Pad(b) * 2 - Len(text)
        left == padding \div 2
        right == padding - left
    IN  <<white>> \o Times(border_char, Pad(b)) \o <<black>> \o Times(border_char, left)
        \o Text(text) \o Times(border_char, right) \o <<reset>>
        \o <<white>> \o Times(border_char, Pad(b)) \o <<reset>>

\* The list "lines" render_image joins with newlines.
RenderLines(idx_grid, cols, b, cap) ==
    (IF b THEN <<BlankLine(cols)>> ELSE << >>)
    \o [k \in 1..(Rows(cols, b) \div 2) |-> ImageLine(idx_grid, cols, b, 2 * (k - 1))]
    \o (IF b
        THEN IF Truthy(cap)
             THEN <<BlankLine(cols), CaptionLine(cols, b, cap), BlankLine(cols)>>
             ELSE [k \in 1..4 |-> BlankLine(cols)]
        ELSE << >>)

\* The row count of render_preview: columns, rounded up to even.
PreviewRows(cols) == IF cols % 2 # 0 THEN cols + 1 ELSE cols

scale == 8

\* The image render_preview returns: cell (x, y) of the grid painted as a
\* block of sc x sc pixels.
PreviewPixels(idx_grid, cols, sc) ==
    [py \in 1..(PreviewRows(cols) * sc) |->
        [px \in 1..(cols * sc) |->
            _idx_to_rgb(idx_grid[((py - 1) \div sc) + 1][((px - 1) \div sc) + 1])]]

\* _image_height with the caption test "caption is not None".
_image_height_not_none(cols, b, cap) ==
    LET inner == IF b THEN cols - 2 ELSE cols
        rows == IF inner % 2 # 0 THEN inner + 1 ELSE inner
    IN  (rows \div 2) + (IF b THEN 1 + (IF cap.given THEN 3 ELSE 4) ELSE 0)

\* _image_height(columns, border, caption) of cli.py
_image_height(cols, b, cap) ==
    LET inner == IF b THEN cols - 2 ELSE cols
        rows == IF inner % 2 # 0 THEN inner + 1 ELSE inner
    IN  (rows \div 2) + (IF b THEN 1 + (IF Truthy(cap) THEN 3 ELSE 4) ELSE 0)

\* The decoded picture handed to render_image, and PIL's resize of it to w x h
\* (one fixed outcome per picture and size).
NoPicture == [kind |-> "none", a |-> NoRgb, b |-> NoRgb]

Resize(pic, w, h) ==
    [y \in 1..h |->
        [x \in 1..w |->
            IF pic.kind = "uniform" THEN pic.a
            ELSE IF pic.kind = "checker" THEN (IF (x + y) % 2 = 0 THEN pic.a ELSE pic.b)
            ELSE (IF y % 2 = 1 THEN pic.a ELSE pic.b)]]

----------------------------------------------------------------------------
(* SpecQuant: one colour is quantized, searched exhaustively, converted    *)
(* back to RGB and quantized again.                                        *)

\* The channel values the colours are drawn from: the ends of the range, a
\* cube level (95) and its neighbour in the next bucket (96), a gray level
\* (38) and a cube level that is a bucket's last value (135).
ChannelSamples == {0, 38, 95, 96, 135, 255}


Corner(v) == (v \div _LUT_STEP) * _LUT_STEP

RemapIdle ==
    /\ rpc = "idle"
    /\ palette_rgb = << >>
    /\ swatch = NoImage
    /\ remap = NoTable
    /\ grid0 = << >>
    /\ grid1 = << >>
    /\ grid2 = << >>
    /\ built = << >>

ScanIdle ==
    /\ spc = "idle"
    /\ is_dir = FALSE
    /\ dir = {}
    /\ todo = << >>
    /\ palettes = << >>

QuantIdle ==
    /\ qpc = "idle"
    /\ rgb = NoRgb
    /\ idx = NoIndex
    /\ exh = NoIndex
    /\ back = NoRgb
    /\ idx2 = NoIndex

GridIdle ==
    /\ pc = "idle"
    /\ src = << >>
    /\ dither = "none"
    /\ poster = 0
    /\ remap_arg = NoTable
    /\ img = << >>
    /\ buf = NoBuf
    /\ grid = << >>
    /\ pos = 0
    /\ done_px = {}
    /\ lookup = NoLookup
    /\ raised = "none"

RenderIdle ==
    /\ vpc = "idle"
    /\ image = NoPicture
    /\ columns = 0
    /\ border = FALSE
    /\ caption = NoCaption
    /\ lines = << >>
    /\ img_lines = 0
    /\ render_grid = << >>
    /\ preview_grid = << >>
    /\ preview = << >>

MenuIdle ==
    /\ mpc = "idle"
    /\ settings = << >>
    /\ selected = << >>
    /\ active_row = 0
    /\ key = "none"
    /\ drawn = "nothing"

SpinIdle ==
    /\ gpc = "idle"
    /\ tpc = "idle"
    /\ stop = FALSE
    /\ api_key = FALSE
    /\ response = "none"
    /\ outcome = "none"
    /\ dots = 0

QuantInit ==
    /\ MenuIdle
    /\ SpinIdle
    /\ RemapIdle
    /\ GridIdle
    /\ RenderIdle
    /\ ScanIdle
    /\ qpc = "start"
    /\ rgb \in ChannelSamples \X ChannelSamples \X ChannelSamples
    /\ idx = NoIndex
    /\ exh = NoIndex
    /\ back = NoRgb
    /\ idx2 = NoIndex

\* idx = _rgb_to_256(r, g, b)
Quantize ==
    /\ qpc = "start"
    /\ idx' = _rgb_to_256(rgb[1], rgb[2], rgb[3])
    /\ qpc' = "quantized"
    /\ UNCHANGED <<rgb, exh, back, idx2>>
    /\ UNCHANGED <<remapVars, gridVars, renderVars, scanVars, menuVars, spinVars>>

\* The exhaustive search on the lower corner of the colour's bucket.
Search ==
    /\ qpc = "quantized"
    /\ exh' = _lab_nearest(_rgb_to_lab(Corner(rgb[1]), Corner(rgb[2]), Corner(rgb[3])))
    /\ qpc' = "searched"
    /\ UNCHANGED <<rgb, idx, back, idx2>>
    /\ UNCHANGED <<remapVars, gridVars, renderVars, scanVars, menuVars, spinVars>>

\* back = _idx_to_rgb(idx)
ToRgb ==
    /\ qpc = "searched"
    /\ back' = _idx_to_rgb(idx)
    /\ qpc' = "back"
    /\ UNCHANGED <<rgb, idx, exh, idx2>>
    /\ UNCHANGED <<remapVars, gridVars, renderVars, scanVars, menuVars, spinVars>>

\* idx2 = _rgb_to_256(*back)
Requantize ==
    /\ qpc = "back"
    /\ idx2' = _rgb_to_256(back[1], back[2], back[3])
    /\ qpc' = "requantized"
    /\ UNCHANGED <<rgb, idx, exh, back>>
    /\ UNCHANGED <<remapVars, gridVars, renderVars, scanVars, menuVars, spinVars>>

QuantNext == Quantize \/ Search \/ ToRgb \/ Requantize

SpecQuant == QuantInit /\ [][QuantNext]_vars

----------------------------------------------------------------------------
(* SpecPalette: _idx_to_rgb applied to two palette indices; back holds the  *)
(* colour of idx and rgb the colour of idx2.                                *)

PaletteInit ==
    /\ MenuIdle
    /\ SpinIdle
    /\ RemapIdle
    /\ GridIdle
    /\ RenderIdle
    /\ ScanIdle
    /\ qpc = "indices"
    /\ idx \in 0..255
    /\ idx2 \in 0..255
    /\ exh = NoIndex
    /\ back = NoRgb
    /\ rgb = NoRgb

\* back = _idx_to_rgb(idx)
FirstToRgb ==
    /\ qpc = "indices"
    /\ back' = _idx_to_rgb(idx)
    /\ qpc' = "first"
    /\ UNCHANGED <<rgb, idx, exh, idx2>>
    /\ UNCHANGED <<remapVars, gridVars, renderVars, scanVars, menuVars, spinVars>>

\* rgb = _idx_to_rgb(idx2)
SecondToRgb ==
    /\ qpc = "first"
    /\ rgb' = _idx_to_rgb(idx2)
    /\ qpc' = "both"
    /\ UNCHANGED <<back, idx, exh, idx2>>
    /\ UNCHANGED <<remapVars, gridVars, renderVars, scanVars, menuVars, spinVars>>

PaletteNext == FirstToRgb \/ SecondToRgb

SpecPalette == PaletteInit /\ [][PaletteNext]_vars

----------------------------------------------------------------------------
(* SpecRemap: a table is built from a colour list or from a swatch image    *)
(* and applied twice to a grid holding every index a quantizer can write.   *)

RasterW == 2
RasterH == 2

\* Two colours whose residuals push a neighbour out of 0..255 in floyd mode:
\* <<250, 3, 128>> quantizes to <<255, 0, 135>>.
PixelColours == { <<250, 3, 128>>, <<0, 255, 0>> }

Rasters ==
    UNION { [1..h -> [1..w -> PixelColours]] : w \in 1..RasterW, h \in 1..RasterH }

Pictures ==
    { [kind |-> "uniform", a |-> <<255, 0, 0>>, b |-> <<255, 0, 0>>],
      [kind |-> "checker", a |-> <<0, 0, 0>>, b |-> <<255, 255, 255>>],
      [kind |-> "stripes", a |-> <<250, 3, 128>>, b |-> <<0, 255, 0>>] }

\* The rasters PIL's resize makes of the pictures.
PictureRasters ==
    { Resize(p, w, h) : p \in Pictures, w \in 1..RasterW, h \in 1..RasterH }

\* The one-row rasters.
RemapRasters == { r \in Rasters : Height(r) = 1 }

MaxPalette == 2

RemapColours ==
    { <<0, 0, 0>>, <<95, 95, 95>>, <<96, 96, 96>>, <<255, 0, 0>>, <<38, 135, 255>> }

SwatchImages ==
    { [w |-> 16, h |-> 16, kind |-> "ramp"],
      [w |-> 16, h |-> 16, kind |-> "gray"],
      [w |-> 32, h |-> 32, kind |-> "gray"] }

\* 15 rows of 16 cells: the indices 16..255, each once.
FullGrid == [y \in 1..15 |-> [x \in 1..16 |-> 16 * y + (x - 1)]]

PaletteLists == UNION { [1..n -> RemapColours] : n \in 1..MaxPalette }

RemapInit ==
    /\ MenuIdle
    /\ SpinIdle
    /\ QuantIdle
    /\ GridIdle
    /\ RenderIdle
    /\ ScanIdle
    /\ rpc = "start"
    /\ \/ palette_rgb \in PaletteLists /\ swatch = NoImage
       \/ palette_rgb = << >> /\ swatch \in SwatchImages
    /\ remap = NoTable
    /\ grid0 = FullGrid
    /\ grid1 = << >>
    /\ grid2 = << >>
    /\ built = << >>

MakeRemap ==
    /\ rpc = "start"
    /\ palette_rgb # << >>
    /\ remap' = make_remap(palette_rgb)
    /\ rpc' = "built"
    /\ UNCHANGED <<palette_rgb, swatch, grid0, grid1, grid2, built>>
    /\ UNCHANGED <<quantVars, gridVars, renderVars, scanVars, menuVars, spinVars>>

LoadLut ==
    /\ rpc = "start"
    /\ swatch # NoImage
    /\ ~ load_lut_raises(swatch)
    /\ remap' = load_lut(swatch)
    /\ rpc' = "built"
    /\ UNCHANGED <<palette_rgb, swatch, grid0, grid1, grid2, built>>
    /\ UNCHANGED <<quantVars, gridVars, renderVars, scanVars, menuVars, spinVars>>

ApplyOnce ==
    /\ rpc = "built"
    /\ grid1' = _apply_remap(grid0, remap)
    /\ rpc' = "applied"
    /\ UNCHANGED <<palette_rgb, swatch, remap, grid0, grid2, built>>
    /\ UNCHANGED <<quantVars, gridVars, renderVars, scanVars, menuVars, spinVars>>

ApplyTwice ==
    /\ rpc = "applied"
    /\ grid2' = _apply_remap(grid1, remap)
    /\ rpc' = "reapplied"
    /\ UNCHANGED <<palette_rgb, swatch, remap, grid0, grid1, built>>
    /\ UNCHANGED <<quantVars, gridVars, renderVars, scanVars, menuVars, spinVars>>

\* _build_idx_grid(img, dither, remap) with the table just built.
BuildWithRemap ==
    /\ rpc = "built"
    /\ \E im \in RemapRasters, mode \in {"none", "floyd", "ordered"} :
        built' = _build_idx_grid(im, mode, remap, 0).grid
    /\ rpc' = "gridbuilt"
    /\ UNCHANGED <<palette_rgb, swatch, remap, grid0, grid1, grid2>>
    /\ UNCHANGED <<quantVars, gridVars, renderVars, scanVars, menuVars, spinVars>>

RemapNext == MakeRemap \/ LoadLut \/ ApplyOnce \/ ApplyTwice \/ BuildWithRemap

SpecRemap == RemapInit /\ [][RemapNext]_vars

----------------------------------------------------------------------------
(* Spec: one call of _build_idx_grid, pixel by pixel in raster order.       *)

\* "bayer" is a dither string the renderer does not name.
DitherModes == {"none", "floyd", "ordered", "bayer"}

PosterLevels == {-1, 0, 4, 256}

RemapArgs ==
    { NoTable,
      make_remap(<< <<95, 95, 95>>, <<255, 0, 0>> >>),
      load_lut([w |-> 16, h |-> 16, kind |-> "ramp"]) }

GridParams ==
    /\ dither \in DitherModes
    /\ poster \in PosterLevels
    /\ remap_arg \in RemapArgs
    /\ buf = NoBuf
    /\ grid = << >>
    /\ pos = 0
    /\ done_px = {}
    /\ lookup = NoLookup
    /\ raised = "none"

GridInit ==
    /\ MenuIdle
    /\ SpinIdle
    /\ QuantIdle
    /\ RemapIdle
    /\ RenderIdle
    /\ ScanIdle
    /\ pc = "entry"
    /\ src \in Rasters
    /\ img = src
    /\ GridParams

\* if poster > 0: img = _posterize(img, poster)
Posterize ==
    /\ pc = "entry"
    /\ poster > 0
    /\ img' = _posterize(img, poster)
    /\ pc' = "posterized"
    /\ UNCHANGED <<src, dither, poster, remap_arg, buf, grid, pos, done_px, lookup, raised>>
    /\ UNCHANGED <<quantVars, remapVars, renderVars, scanVars, menuVars, spinVars>>

SkipPosterize ==
    /\ pc = "entry"
    /\ ~ (poster > 0)
    /\ pc' = "posterized"
    /\ UNCHANGED <<src, dither, poster, remap_arg, img, buf, grid, pos, done_px, lookup, raised>>
    /\ UNCHANGED <<quantVars, remapVars, renderVars, scanVars, menuVars, spinVars>>

\* The branch started on the caller's raster, the posterized one set aside.
StartScanRaw ==
    /\ pc = "posterized"
    /\ img' = src
    /\ buf' = ScanStart(src, dither).buf
    /\ grid' = ScanStart(src, dither).grid
    /\ pos' = 0
    /\ pc' = "scan"
    /\ UNCHANGED <<src, dither, poster, remap_arg, done_px, lookup, raised>>
    /\ UNCHANGED <<quantVars, remapVars, renderVars, scanVars, menuVars, spinVars>>

\* The chosen branch allocates buf (floyd) and grid.
StartScan ==
    /\ pc = "posterized"
    /\ buf' = ScanStart(img, dither).buf
    /\ grid' = ScanStart(img, dither).grid
    /\ pos' = 0
    /\ pc' = "scan"
    /\ UNCHANGED <<src, dither, poster, remap_arg, img, done_px, lookup, raised>>
    /\ UNCHANGED <<quantVars, remapVars, renderVars, scanVars, menuVars, spinVars>>

\* The loop body for pixel (x, y), applied to the state of the call.
Step(x, y) ==
    LET st == PixelBody([buf |-> buf, grid |-> grid, lookup |-> lookup, raised |-> raised],
                        img, dither, x, y)
    IN  /\ buf' = st.buf
        /\ grid' = st.grid
        /\ lookup' = st.lookup
        /\ raised' = st.raised
        /\ IF st.raised # "none"
           THEN pc' = "raised" /\ UNCHANGED <<pos, done_px>>
           ELSE pc' = pc /\ pos' = pos + 1 /\ done_px' = done_px \cup {<<x, y>>}
        /\ UNCHANGED <<src, dither, poster, remap_arg, img>>

\* The floyd loops with x outermost: "for x in range(w): for y in range(h)".
FloydPixelColumnMajor ==
    /\ pc = "scan"
    /\ dither = "floyd"
    /\ pos < Width(img) * Height(img)
    /\ Step(pos \div Height(img), pos % Height(img))
    /\ UNCHANGED <<quantVars, remapVars, renderVars, scanVars, menuVars, spinVars>>

FloydPixel ==
    /\ pc = "scan"
    /\ dither = "floyd"
    /\ pos < Width(img) * Height(img)
    /\ Step(pos % Width(img), pos \div Width(img))
    /\ UNCHANGED <<quantVars, remapVars, renderVars, scanVars, menuVars, spinVars>>

OrderedPixel ==
    /\ pc = "scan"
    /\ dither = "ordered"
    /\ pos < Width(img) * Height(img)
    /\ Step(pos % Width(img), pos \div Width(img))
    /\ UNCHANGED <<quantVars, remapVars, renderVars, scanVars, menuVars, spinVars>>

NonePixel ==
    /\ pc = "scan"
    /\ dither \notin {"floyd", "ordered"}
    /\ pos < Width(img) * Height(img)
    /\ Step(pos % Width(img), pos \div Width(img))
    /\ UNCHANGED <<quantVars, remapVars, renderVars, scanVars, menuVars, spinVars>>

EndScan ==
    /\ pc = "scan"
    /\ pos = Width(img) * Height(img)
    /\ pc' = "scanned"
    /\ UNCHANGED <<src, dither, poster, remap_arg, img, buf, grid, pos, done_px, lookup, raised>>
    /\ UNCHANGED <<quantVars, remapVars, renderVars, scanVars, menuVars, spinVars>>

\* if remap: _apply_remap(grid, remap)
ApplyRemap ==
    /\ pc = "scanned"
    /\ remap_arg # NoTable
    /\ grid' = _apply_remap(grid, remap_arg)
    /\ pc' = "done"
    /\ UNCHANGED <<src, dither, poster, remap_arg, img, buf, pos, done_px, lookup, raised>>
    /\ UNCHANGED <<quantVars, remapVars, renderVars, scanVars, menuVars, spinVars>>

Return ==
    /\ pc = "scanned"
    /\ remap_arg = NoTable
    /\ pc' = "done"
    /\ UNCHANGED <<src, dither, poster, remap_arg, img, buf, grid, pos, done_px, lookup, raised>>
    /\ UNCHANGED <<quantVars, remapVars, renderVars, scanVars, menuVars, spinVars>>

Next ==
    \/ Posterize
    \/ SkipPosterize
    \/ StartScan
    \/ FloydPixel
    \/ OrderedPixel
    \/ NonePixel
    \/ EndScan
    \/ ApplyRemap
    \/ Return

Spec == GridInit /\ [][Next]_vars

\* The same call on the rasters PIL's resize makes of the pictures.
StagesInit ==
    /\ MenuIdle
    /\ SpinIdle
    /\ QuantIdle
    /\ RemapIdle
    /\ RenderIdle
    /\ ScanIdle
    /\ pc = "entry"
    /\ src \in PictureRasters
    /\ img = src
    /\ GridParams

SpecStages == StagesInit /\ [][Next]_vars

----------------------------------------------------------------------------
(* SpecPerm: the same call in modes none and ordered, with the pixels       *)
(* taken in any order, as a set of workers would.                           *)

PermInit ==
    /\ MenuIdle
    /\ SpinIdle
    /\ QuantIdle
    /\ RemapIdle
    /\ RenderIdle
    /\ ScanIdle
    /\ pc = "entry"
    /\ src \in PictureRasters
    /\ img = src
    /\ GridParams
    /\ dither \in {"none", "ordered"}
    /\ remap_arg = NoTable

AnyPixel ==
    /\ pc = "scan"
    /\ \E x \in 0..(Width(img) - 1), y \in 0..(Height(img) - 1) :
        /\ <<x, y>> \notin done_px
        /\ Step(x, y)
    /\ UNCHANGED <<quantVars, remapVars, renderVars, scanVars, menuVars, spinVars>>

PermEnd ==
    /\ pc = "scan"
    /\ Cardinality(done_px) = Width(img) * Height(img)
    /\ pc' = "done"
    /\ UNCHANGED <<src, dither, poster, remap_arg, img, buf, grid, pos, done_px, lookup, raised>>
    /\ UNCHANGED <<quantVars, remapVars, renderVars, scanVars, menuVars, spinVars>>

PermNext ==
    \/ Posterize
    \/ SkipPosterize
    \/ StartScan
    \/ AnyPixel
    \/ PermEnd

SpecPerm == PermInit /\ [][PermNext]_vars

----------------------------------------------------------------------------
(* SpecFloyd: the same call in floyd mode on rasters wide enough to hold a  *)
(* pixel with all eight neighbours' positions on both sides.               *)

FloydW == 3
FloydH == 2

FloydRasters ==
    { Resize(p, w, h) : p \in Pictures, w \in 1..FloydW, h \in 1..FloydH }

FloydInit ==
    /\ MenuIdle
    /\ SpinIdle
    /\ QuantIdle
    /\ RemapIdle
    /\ RenderIdle
    /\ ScanIdle
    /\ pc = "entry"
    /\ src \in FloydRasters
    /\ img = src
    /\ GridParams
    /\ dither = "floyd"

FloydNext ==
    \/ Posterize
    \/ SkipPosterize
    \/ StartScan
    \/ FloydPixel
    \/ EndScan
    \/ ApplyRemap
    \/ Return

SpecFloyd == FloydInit /\ [][FloydNext]_vars

----------------------------------------------------------------------------
(* SpecPoster: _posterize on a one-pixel raster, for every channel value    *)
(* and every number of levels.                                              *)

GrayPixels == { << << <<v, v, v>> >> >> : v \in 0..255 }

PosterInit ==
    /\ MenuIdle
    /\ SpinIdle
    /\ QuantIdle
    /\ RemapIdle
    /\ RenderIdle
    /\ ScanIdle
    /\ pc = "entry"
    /\ src \in GrayPixels
    /\ img = src
    /\ dither = "none"
    /\ poster \in 1..256
    /\ remap_arg = NoTable
    /\ buf = NoBuf
    /\ grid = << >>
    /\ pos = 0
    /\ done_px = {}
    /\ lookup = NoLookup
    /\ raised = "none"

PosterNext == Posterize

SpecPoster == PosterInit /\ [][PosterNext]_vars

----------------------------------------------------------------------------
(* SpecRender: one call of render_image: the resize, the call of            *)
(* _build_idx_grid (the actions of Spec) and the compositor.                *)

MaxColumns == 4
MaxCaption == 3

Captions == {NoCaption} \cup { Str([i \in 1..n |-> "a"]) : n \in 0..MaxCaption }

\* The error buffer is exact for rasters up to 3 x 3.
FloydExact(w, h) == w <= 3 /\ h <= 3

RenderInit ==
    /\ MenuIdle
    /\ SpinIdle
    /\ QuantIdle
    /\ RemapIdle
    /\ ScanIdle
    /\ vpc = "cli"
    /\ image \in Pictures
    /\ columns \in 1..MaxColumns
    /\ border \in BOOLEAN
    /\ Inner(columns, border) >= 1
    /\ caption \in Captions
    /\ (~ border) => caption = NoCaption
    /\ lines = << >>
    /\ img_lines = 0
    /\ render_grid = << >>
    /\ preview_grid = << >>
    /\ preview = << >>
    /\ pc = "idle"
    /\ src = << >>
    /\ img = << >>
    /\ GridParams
    /\ poster \in {0, 4}
    /\ dither = "floyd" => FloydExact(Inner(columns, border), Rows(columns, border))

\* img_lines = _image_height(columns, pola, caption), before the first render.
ImageHeight ==
    /\ vpc = "cli"
    /\ img_lines' = _image_height(columns, border, caption)
    /\ vpc' = "call"
    /\ UNCHANGED <<image, columns, border, caption, lines, render_grid, preview_grid, preview>>
    /\ UNCHANGED gridVars
    /\ UNCHANGED <<quantVars, remapVars, scanVars, menuVars, spinVars>>

\* img = image.convert("RGB").resize((inner, rows), resample), and the call
\* of _build_idx_grid.
ResizeAndCall ==
    /\ vpc = "call"
    /\ src' = Resize(image, Inner(columns, border), Rows(columns, border))
    /\ img' = src'
    /\ pc' = "entry"
    /\ vpc' = "building"
    /\ UNCHANGED <<dither, poster, remap_arg, buf, grid, pos, done_px, lookup, raised>>
    /\ UNCHANGED <<image, columns, border, caption, lines, img_lines, render_grid,
                    preview_grid, preview>>
    /\ UNCHANGED <<quantVars, remapVars, scanVars, menuVars, spinVars>>

\* The rest of render_image, once _build_idx_grid has returned render_grid.
Compose ==
    /\ vpc = "building"
    /\ pc = "done"
    /\ render_grid' = grid
    /\ lines' = RenderLines(render_grid', columns, border, caption)
    /\ vpc' = "returned"
    /\ UNCHANGED <<image, columns, border, caption, img_lines, preview_grid, preview>>
    /\ UNCHANGED gridVars
    /\ UNCHANGED <<quantVars, remapVars, scanVars, menuVars, spinVars>>

\* render_preview(image, columns, scale=8, ...) with the settings of the
\* render shown (floyd only on the rasters whose error values are exact):
\* the resize to columns x rows and the call of _build_idx_grid.
PreviewCall ==
    /\ vpc = "returned"
    /\ dither = "floyd" => FloydExact(columns, PreviewRows(columns))
    /\ src' = Resize(image, columns, PreviewRows(columns))
    /\ img' = src'
    /\ buf' = NoBuf
    /\ grid' = << >>
    /\ pos' = 0
    /\ done_px' = {}
    /\ lookup' = NoLookup
    /\ pc' = "entry"
    /\ vpc' = "previewing"
    /\ UNCHANGED <<dither, poster, remap_arg, raised>>
    /\ UNCHANGED <<image, columns, border, caption, lines, img_lines, render_grid,
                    preview_grid, preview>>
    /\ UNCHANGED <<quantVars, remapVars, scanVars, menuVars, spinVars>>

\* The rest of render_preview: the grid painted in blocks of scale pixels.
Preview ==
    /\ vpc = "previewing"
    /\ pc = "done"
    /\ preview_grid' = grid
    /\ preview' = PreviewPixels(preview_grid', columns, scale)
    /\ vpc' = "previewed"
    /\ UNCHANGED <<image, columns, border, caption, lines, img_lines, render_grid>>
    /\ UNCHANGED gridVars
    /\ UNCHANGED <<quantVars, remapVars, scanVars, menuVars, spinVars>>

RenderNext ==
    \/ ImageHeight
    \/ ResizeAndCall
    \/ Posterize
    \/ SkipPosterize
    \/ StartScan
    \/ FloydPixel
    \/ OrderedPixel
    \/ NonePixel
    \/ EndScan
    \/ ApplyRemap
    \/ Return
    \/ Compose
    \/ PreviewCall
    \/ Preview

SpecRender == RenderInit /\ [][RenderNext]_vars

----------------------------------------------------------------------------
(* SpecScan: one call of _scan_palettes (src/axon/cli.py) on a palettes/    *)
(* folder.                                                                  *)

\* The PNG files a folder may hold: an unreadable one, a 16 x 16 grid of one
\* pixel swatches, the documented 16 x 16 grid of 32 x 32 swatches, an image
\* smaller than 16 pixels a side, and one whose width is no multiple of 16.
PngFiles ==
    { [stem |-> "broken", readable |-> FALSE, sw |-> NoImage],
      [stem |-> "gray",   readable |-> TRUE,  sw |-> [w |-> 512, h |-> 512, kind |-> "gray"]],
      [stem |-> "ramp",   readable |-> TRUE,  sw |-> [w |-> 16, h |-> 16, kind |-> "ramp"]],
      [stem |-> "small",  readable |-> TRUE,  sw |-> [w |-> 8, h |-> 8, kind |-> "gray"]],
      [stem |-> "wide",   readable |-> TRUE,  sw |-> [w |-> 20, h |-> 16, kind |-> "ramp"]] }

\* sorted(lut_dir.glob("*.png")): the stems in ascending order.
StemOrder == <<"broken", "gray", "ramp", "small", "wide">>

Sorted(files) ==
    LET F(i) == CHOOSE f \in PngFiles : f.stem = StemOrder[i]
        In(i) == F(i) \in files
        RECURSIVE From(_)
        From(i) == IF i > Len(StemOrder) THEN << >>
                   ELSE (IF In(i) THEN <<F(i)>> ELSE << >>) \o From(i + 1)
    IN  From(1)

\* png.stem.capitalize()
Capitalize(stem) ==
    CASE stem = "broken" -> "Broken"
      [] stem = "gray"   -> "Gray"
      [] stem = "ramp"   -> "Ramp"
      [] stem = "small"  -> "Small"
      [] stem = "wide"   -> "Wide"

\* Whether load_lut(str(png)) raises: Image.open on an unreadable file, or an
\* IndexError of the pixel access.
LoadRaises(f) == (~ f.readable) \/ load_lut_raises(f.sw)

ScanInit ==
    /\ MenuIdle
    /\ SpinIdle
    /\ QuantIdle
    /\ RemapIdle
    /\ GridIdle
    /\ RenderIdle
    /\ spc = "start"
    /\ is_dir \in BOOLEAN
    /\ dir \in SUBSET PngFiles
    /\ (~ is_dir) => dir = {}
    /\ todo = << >>
    /\ palettes = << >>

\* palettes = [("None", None)], and the folder listing when it is a folder.
ScanBegin ==
    /\ spc = "start"
    /\ palettes' = << <<"None", NoTable>> >>
    /\ IF is_dir
       THEN todo' = Sorted(dir) /\ spc' = "loop"
       ELSE todo' = << >> /\ spc' = "returned"
    /\ UNCHANGED <<is_dir, dir>>
    /\ UNCHANGED <<quantVars, remapVars, gridVars, renderVars, menuVars, spinVars>>

\* The try block ran to its end.
ScanLoad ==
    /\ spc = "loop"
    /\ todo # << >>
    /\ ~ LoadRaises(Head(todo))
    /\ palettes' = Append(palettes, <<Capitalize(Head(todo).stem), load_lut(Head(todo).sw)>>)
    /\ todo' = Tail(todo)
    /\ UNCHANGED <<spc, is_dir, dir>>
    /\ UNCHANGED <<quantVars, remapVars, gridVars, renderVars, menuVars, spinVars>>

\* except Exception: continue
ScanSkip ==
    /\ spc = "loop"
    /\ todo # << >>
    /\ LoadRaises(Head(todo))
    /\ todo' = Tail(todo)
    /\ UNCHANGED <<spc, is_dir, dir, palettes>>
    /\ UNCHANGED <<quantVars, remapVars, gridVars, renderVars, menuVars, spinVars>>

ScanReturn ==
    /\ spc = "loop"
    /\ todo = << >>
    /\ spc' = "returned"
    /\ UNCHANGED <<is_dir, dir, todo, palettes>>
    /\ UNCHANGED <<quantVars, remapVars, gridVars, renderVars, menuVars, spinVars>>

ScanNext == ScanBegin \/ ScanLoad \/ ScanSkip \/ ScanReturn

SpecScan == ScanInit /\ [][ScanNext]_vars

----------------------------------------------------------------------------
(* SpecMenu: the settings menu loop of _generate_and_display                *)
(* (src/axon/cli.py).  selected and active_row are 0-based as in the code;  *)
(* drawn is what the last iteration of the loop wrote: the image and the    *)
(* menu ("all", _draw_all), the menu alone ("menu", _redraw_menu_only) or   *)
(* nothing.                                                                 *)

_FILTERS == <<"Silk", "Soft", "Crisp", "Raw">>
_DITHERS == <<"Clean", "Grain", "Grid">>
_POSTERS == <<"Off", "Light", "Heavy">>

MaxMenuPalettes == 2

\* The option names _scan_palettes returns: "None" and the palettes found.
MenuPalettes ==
    { [i \in 1..(n + 1) |-> IF i = 1 THEN "None" ELSE "Palette"] : n \in 0..MaxMenuPalettes }

MenuInit ==
    /\ SpinIdle
    /\ QuantIdle
    /\ RemapIdle
    /\ GridIdle
    /\ RenderIdle
    /\ ScanIdle
    /\ mpc = "loop"
    /\ \E pal \in MenuPalettes : settings = <<_FILTERS, _DITHERS, _POSTERS, pal>>
    /\ selected = <<0, 0, 0, 0>>
    /\ active_row = 0
    /\ key = "none"
    /\ drawn = "all"

\* if key in ("quit", "enter"): break
KeyQuit ==
    /\ mpc = "loop"
    /\ key' \in {"quit", "enter"}
    /\ mpc' = "left"
    /\ drawn' = "nothing"
    /\ UNCHANGED <<settings, selected, active_row>>
    /\ UNCHANGED <<quantVars, remapVars, gridVars, renderVars, scanVars, spinVars>>

KeyUp ==
    /\ mpc = "loop"
    /\ key' = "up"
    /\ IF active_row > 0
       THEN active_row' = active_row - 1 /\ drawn' = "menu"
       ELSE active_row' = active_row /\ drawn' = "nothing"
    /\ UNCHANGED <<mpc, settings, selected>>
    /\ UNCHANGED <<quantVars, remapVars, gridVars, renderVars, scanVars, spinVars>>

KeyDown ==
    /\ mpc = "loop"
    /\ key' = "down"
    /\ IF active_row < Len(settings) - 1
       THEN active_row' = active_row + 1 /\ drawn' = "menu"
       ELSE active_row' = active_row /\ drawn' = "nothing"
    /\ UNCHANGED <<mpc, settings, selected>>
    /\ UNCHANGED <<quantVars, remapVars, gridVars, renderVars, scanVars, spinVars>>

KeyLeft ==
    /\ mpc = "loop"
    /\ key' = "left"
    /\ LET prev == selected[active_row + 1]
       IN  /\ selected' = IF prev > 0
                          THEN [selected EXCEPT ![active_row + 1] = prev - 1]
                          ELSE selected
           /\ drawn' = IF selected'[active_row + 1] # prev THEN "all" ELSE "nothing"
    /\ UNCHANGED <<mpc, settings, active_row>>
    /\ UNCHANGED <<quantVars, remapVars, gridVars, renderVars, scanVars, spinVars>>

\* The right key without the test against len(options) - 1.
KeyRightNoLimit ==
    /\ mpc = "loop"
    /\ key' = "right"
    /\ selected' = [selected EXCEPT ![active_row + 1] = @ + 1]
    /\ drawn' = "all"
    /\ UNCHANGED <<mpc, settings, active_row>>
    /\ UNCHANGED <<quantVars, remapVars, gridVars, renderVars, scanVars, spinVars>>

KeyRight ==
    /\ mpc = "loop"
    /\ key' = "right"
    /\ LET options == settings[active_row + 1]
           prev == selected[active_row + 1]
       IN  /\ selected' = IF prev < Len(options) - 1
                          THEN [selected EXCEPT ![active_row + 1] = prev + 1]
                          ELSE selected
           /\ drawn' = IF selected'[active_row + 1] # prev THEN "all" ELSE "nothing"
    /\ UNCHANGED <<mpc, settings, active_row>>
    /\ UNCHANGED <<quantVars, remapVars, gridVars, renderVars, scanVars, spinVars>>

\* Any other character _read_key returns: no branch of the loop takes it.
KeyOther ==
    /\ mpc = "loop"
    /\ key' = "x"
    /\ drawn' = "nothing"
    /\ UNCHANGED <<mpc, settings, selected, active_row>>
    /\ UNCHANGED <<quantVars, remapVars, gridVars, renderVars, scanVars, spinVars>>

MenuNext == KeyQuit \/ KeyUp \/ KeyDown \/ KeyLeft \/ KeyRight \/ KeyOther

SpecMenu == MenuInit /\ [][MenuNext]_vars

----------------------------------------------------------------------------
(* SpecSpin: one call of generate_image (src/axon/generator.py) and the     *)
(* spinner thread it starts.  gpc is the caller's position, tpc the         *)
(* thread's ("none": not started), stop the threading.Event, response what  *)
(* the API call did, outcome how generate_image ends, dots the colour of    *)
(* the first dot of the frame last drawn.                                   *)

_DUST_COLORS == <<"206", "51", "34", "26">>

SpinInit ==
    /\ MenuIdle
    /\ QuantIdle
    /\ RemapIdle
    /\ GridIdle
    /\ RenderIdle
    /\ ScanIdle
    /\ gpc = "entry"
    /\ tpc = "none"
    /\ stop = FALSE
    /\ api_key \in BOOLEAN
    /\ response = "none"
    /\ outcome = "none"
    /\ dots = 0

\* if not api_key: raise SystemExit(...)
NoApiKey ==
    /\ gpc = "entry"
    /\ ~ api_key
    /\ outcome' = "SystemExit"
    /\ gpc' = "exited"
    /\ UNCHANGED <<tpc, stop, api_key, response, dots>>
    /\ UNCHANGED <<quantVars, remapVars, gridVars, renderVars, scanVars, menuVars>>

\* stop = threading.Event(); spinner_thread.start()
StartSpinner ==
    /\ gpc = "entry"
    /\ api_key
    /\ stop' = FALSE
    /\ tpc' = "started"
    /\ gpc' = "call"
    /\ UNCHANGED <<api_key, response, outcome, dots>>
    /\ UNCHANGED <<quantVars, remapVars, gridVars, renderVars, scanVars, menuVars>>

\* The response holds a part with inline data: return part.inline_data.data
ApiReturnsImage ==
    /\ gpc = "call"
    /\ response' = "image"
    /\ outcome' = "bytes"
    /\ gpc' = "finally"
    /\ UNCHANGED <<tpc, stop, api_key, dots>>
    /\ UNCHANGED <<quantVars, remapVars, gridVars, renderVars, scanVars, menuVars>>

\* No parts, or no part with inline data: raise SystemExit, re-raised by
\* "except SystemExit: raise".
ApiReturnsNoImage ==
    /\ gpc = "call"
    /\ response' \in {"no parts", "no inline data"}
    /\ outcome' = "SystemExit"
    /\ gpc' = "finally"
    /\ UNCHANGED <<tpc, stop, api_key, dots>>
    /\ UNCHANGED <<quantVars, remapVars, gridVars, renderVars, scanVars, menuVars>>

\* generate_content raises: "except Exception" turns it into SystemExit.
ApiRaises ==
    /\ gpc = "call"
    /\ response' \in {"503", "429", "other error"}
    /\ outcome' = "SystemExit"
    /\ gpc' = "finally"
    /\ UNCHANGED <<tpc, stop, api_key, dots>>
    /\ UNCHANGED <<quantVars, remapVars, gridVars, renderVars, scanVars, menuVars>>

\* finally: stop.set()
SetStop ==
    /\ gpc = "finally"
    /\ stop' = TRUE
    /\ gpc' = "join"
    /\ UNCHANGED <<tpc, api_key, response, outcome, dots>>
    /\ UNCHANGED <<quantVars, remapVars, gridVars, renderVars, scanVars, menuVars>>

\* join() without waiting for the thread.
JoinNoWait ==
    /\ gpc = "join"
    /\ gpc' = "exited"
    /\ UNCHANGED <<tpc, stop, api_key, response, outcome, dots>>
    /\ UNCHANGED <<quantVars, remapVars, gridVars, renderVars, scanVars, menuVars>>

\* spinner_thread.join() returns once the thread has terminated.
Join ==
    /\ gpc = "join"
    /\ tpc = "terminated"
    /\ gpc' = "exited"
    /\ UNCHANGED <<tpc, stop, api_key, response, outcome, dots>>
    /\ UNCHANGED <<quantVars, remapVars, gridVars, renderVars, scanVars, menuVars>>

\* The thread's first statements, up to the loop.
SpinnerBegin ==
    /\ tpc = "started"
    /\ tpc' = "test"
    /\ UNCHANGED <<gpc, stop, api_key, response, outcome, dots>>
    /\ UNCHANGED <<quantVars, remapVars, gridVars, renderVars, scanVars, menuVars>>

\* while not stop_event.is_set():
SpinnerTest ==
    /\ tpc = "test"
    /\ tpc' = IF stop THEN "cleanup" ELSE "draw"
    /\ UNCHANGED <<gpc, stop, api_key, response, outcome, dots>>
    /\ UNCHANGED <<quantVars, remapVars, gridVars, renderVars, scanVars, menuVars>>

\* One frame: random.choice(_DUST_COLORS) for each dot, written to stderr.
SpinnerDraw ==
    /\ tpc = "draw"
    /\ dots' \in 1..Len(_DUST_COLORS)
    /\ tpc' = "wait"
    /\ UNCHANGED <<gpc, stop, api_key, response, outcome>>
    /\ UNCHANGED <<quantVars, remapVars, gridVars, renderVars, scanVars, menuVars>>

\* stop_event.wait(0.02) returns, the event set or the time out.
SpinnerWait ==
    /\ tpc = "wait"
    /\ tpc' = "test"
    /\ UNCHANGED <<gpc, stop, api_key, response, outcome, dots>>
    /\ UNCHANGED <<quantVars, remapVars, gridVars, renderVars, scanVars, menuVars>>

\* finally: the line is cleared and the cursor shown; the thread ends.
SpinnerFinally ==
    /\ tpc = "cleanup"
    /\ tpc' = "terminated"
    /\ UNCHANGED <<gpc, stop, api_key, response, outcome, dots>>
    /\ UNCHANGED <<quantVars, remapVars, gridVars, renderVars, scanVars, menuVars>>

SpinNext ==
    \/ NoApiKey
    \/ StartSpinner
    \/ ApiReturnsImage
    \/ ApiReturnsNoImage
    \/ ApiRaises
    \/ SetStop
    \/ Join
    \/ SpinnerBegin
    \/ SpinnerTest
    \/ SpinnerDraw
    \/ SpinnerWait
    \/ SpinnerFinally

\* The scheduler runs a runnable thread, and wait(0.02) times out: every
\* step of the spinner and of the caller's finally block is taken in the
\* end.  Nothing is assumed of the API call, which may never return.
SpinFairness ==
    /\ WF_vars(SpinnerBegin)
    /\ WF_vars(SpinnerTest)
    /\ WF_vars(SpinnerDraw)
    /\ WF_vars(SpinnerWait)
    /\ WF_vars(SpinnerFinally)
    /\ WF_vars(SetStop)
    /\ WF_vars(Join)

SpecSpin == SpinInit /\ [][SpinNext]_vars /\ SpinFairness

----------------------------------------------------------------------------
(* Claims *)

\* C1: re-quantizing a palette colour returns the same index: with
\* i = _rgb_to_256(r,g,b), _rgb_to_256(_idx_to_rgb(i)) = i.
C1_Requantize_Fixed == qpc = "requantized" => idx2 = idx

\* C2: applying a remap table built by make_remap or load_lut twice gives the
\* same grid as applying it once.
C2_Remap_Idempotent == rpc = "reapplied" => grid2 = grid1

\* The number of printed characters of a line.
Visible(line) == Cardinality({ i \in 1..Len(line) : line[i].t = "ch" })

\* C3: with border=true and width W >= 3 every line render_image returns
\* (top border, image lines, caption band or padding band) has exactly W
\* printed characters, whatever the caption's length.
C3_Border_Width ==
    (vpc = "returned" /\ border /\ columns >= 3) =>
        \A i \in 1..Len(lines) : Visible(lines[i]) = columns

C3_Witness ==
    /\ vpc = "returned"
    /\ border
    /\ columns >= 3
    /\ Len(caption.text) > columns - 2
    /\ Len(lines) = (Rows(columns, border) \div 2) + 4

\* C4: a call with a dither mode outside {none, floyd, ordered} or with a
\* negative posterization level ends in a configuration error and produces no
\* index grid: no pixel is processed.
C4_Invalid_Config_Rejected ==
    (dither \notin {"none", "floyd", "ordered"} \/ poster < 0) =>
        /\ grid = << >>
        /\ done_px = {}
        /\ pc = "done" => raised # "none"

\* A swatch image that is a 16 x 16 grid of equally sized swatches.
WellFormed(f) ==
    f.readable /\ f.sw.w >= 16 /\ f.sw.h >= 16 /\ f.sw.w % 16 = 0 /\ f.sw.h % 16 = 0

Listed(f) == \E i \in 1..Len(palettes) : palettes[i][1] = Capitalize(f.stem)

\* C5: a malformed swatch image makes load_lut fail, and _scan_palettes skips
\* it while returning ("None", None) first and every well-formed palette.
C5_Malformed_Skipped ==
    spc = "returned" =>
        /\ palettes[1] = <<"None", NoTable>>
        /\ \A f \in dir : Listed(f) <=> WellFormed(f)

\* The indices of the colours of the list.
Restricted(pal) == { _rgb_to_256(pal[j][1], pal[j][2], pal[j][3]) : j \in 1..Len(pal) }

\* List position j holds the colour nearest to c, the earliest on a tie.
FirstNearest(c, pal, j) ==
    /\ \A k \in 1..Len(pal) : RgbDist(c, pal[j]) <= RgbDist(c, pal[k])
    /\ \A k \in 1..(j - 1) : RgbDist(c, pal[k]) > RgbDist(c, pal[j])

\* C6: every entry remap[i] of a table built by make_remap is the index of the
\* list colour nearest to _idx_to_rgb(i) in squared RGB distance, the earliest
\* on a tie; so every cell of a grid built with that remap is the index of a
\* colour of the list.
C6_Remap_In_Restricted_Set ==
    (palette_rgb # << >> /\ rpc # "start") =>
        /\ \A i \in 0..255 :
             \E j \in 1..Len(palette_rgb) :
                /\ FirstNearest(_idx_to_rgb(i), palette_rgb, j)
                /\ remap[i + 1] = _rgb_to_256(palette_rgb[j][1], palette_rgb[j][2],
                                              palette_rgb[j][3])
        /\ rpc = "gridbuilt" =>
             \A y \in 1..Len(built) : \A x \in 1..Len(built[y]) :
                built[y][x] \in Restricted(palette_rgb)

C6_Witness ==
    /\ rpc = "gridbuilt"
    /\ Len(palette_rgb) = 2
    /\ palette_rgb[1] # palette_rgb[2]
    /\ Len(built) = 1
    /\ \E x \in 1..Len(built[1]) : built[1][x] = remap[47]
    /\ \E i, k \in 1..256 : remap[i] # remap[k]

\* The squared Lab distance from the bucket corner of rgb to palette index j.
CornerDist(j) ==
    SqDist(_rgb_to_lab(Corner(rgb[1]), Corner(rgb[2]), Corner(rgb[3])),
           _PALETTE_LAB[j - 15])

\* C7: _rgb_to_256 returns the index the exhaustive search _lab_nearest returns
\* for the lower corner of the colour's bucket (the colour itself when it is a
\* bucket representative); that index is a nearest palette entry in Lab
\* distance, and the lowest index among the nearest ones.
C7_Lut_Is_Exhaustive ==
    qpc \in {"searched", "back", "requantized"} =>
        /\ idx = exh
        /\ idx \in 16..255
        /\ \A j \in 16..255 :
            /\ ~ DistLess(CornerDist(j), CornerDist(idx))
            /\ j < idx => DistLess(CornerDist(idx), CornerDist(j))

C7_Witness ==
    /\ qpc = "searched"
    /\ rgb = <<96, 38, 255>>
    /\ idx = exh
    /\ idx # NoIndex

\* C8: posterization with levels = 256 and with levels = 0 is the identity:
\* the raster handed to the quantizer equals the caller's raster pixel for
\* pixel, and the grid returned is the grid of the unmodified raster.
C8_Posterize_Identity ==
    poster \in {0, 256} =>
        /\ pc \in {"posterized", "scan", "scanned", "done"} => img = src
        /\ pc = "done" => grid = _build_idx_grid(src, dither, remap_arg, 0).grid

C8_Witness ==
    /\ pc = "done"
    /\ poster = 256
    /\ dither = "floyd"
    /\ Width(src) = RasterW
    /\ Height(src) = RasterH

\* C9: in modes none and ordered the pixels may be processed in any order:
\* every cell written so far, and the whole grid at the end, equals the cell
\* the row-major loops of _build_idx_grid write.
C9_Order_Independent ==
    pc \in {"scan", "done"} =>
        LET ref == _build_idx_grid(src, dither, NoTable, poster).grid
        IN  /\ \A p \in done_px : grid[p[2] + 1][p[1] + 1] = ref[p[2] + 1][p[1] + 1]
            /\ pc = "done" => grid = ref

\* Two cells are written and the first cell of the raster is not among them.
C9_Witness ==
    /\ pc = "scan"
    /\ dither = "ordered"
    /\ Width(src) = RasterW
    /\ Height(src) = RasterH
    /\ Cardinality(done_px) >= 2
    /\ <<0, 0>> \notin done_px
    /\ \E p, q \in done_px : grid[p[2] + 1][p[1] + 1] # grid[q[2] + 1][q[1] + 1]

InRange(c) == \A k \in 1..3 : c[k] \in 0..255

\* C10: for every raster and dither mode each table lookup is made with
\* channels inside 0..255, no exception is raised, and without a remap every
\* cell written is an index in 16..255.
C10_Quantization_Total ==
    /\ lookup # NoLookup => InRange(lookup.clamped)
    /\ raised = "none"
    /\ pc # "raised"
    /\ remap_arg = NoTable =>
        \A p \in done_px : grid[p[2] + 1][p[1] + 1] \in 16..255

\* Clamping acted in floyd mode: a rounded value fell outside 0..255.
C10_Witness ==
    /\ dither = "floyd"
    /\ lookup # NoLookup
    /\ ~ InRange(lookup.raw)
    /\ InRange(lookup.clamped)
    /\ pc = "done"
    /\ remap_arg = NoTable

\* C11: the index grid render_preview paints is, cell for cell, the grid
\* render_image encodes in the text shown for the same image and settings,
\* with the border off and with the border on, and the preview shows each
\* cell as a scale x scale block of _idx_to_rgb(index).
C11_Preview_Is_Output ==
    vpc = "previewed" =>
        /\ preview_grid = render_grid
        /\ preview = PreviewPixels(render_grid, Inner(columns, border), scale)

\* Exact arithmetic on error values, for stating what a step did.
FxSub(a, b) ==
    LET f == a[2] - b[2]
    IN  IF f >= 0 THEN << a[1] - b[1], f >> ELSE << a[1] - b[1] - 1, f + FracScale >>

FxNeg(a) == FxSub(Fx(0), a)

FxLess(a, b) == a[1] < b[1] \/ (a[1] = b[1] /\ a[2] < b[2])

FxAbs(a) == IF FxLess(a, Fx(0)) THEN FxNeg(a) ELSE a

RECURSIVE FxTimes(_, _)
FxTimes(a, k) == IF k = 0 THEN Fx(0) ELSE FxAdd(a, FxTimes(a, k - 1))

Fx16(a) ==
    LET a2 == FxAdd(a, a)
        a4 == FxAdd(a2, a2)
        a8 == FxAdd(a4, a4)
    IN  FxAdd(a8, a8)

\* The sixteenths of the residual of pixel (x, y) that go to pixel (tx, ty).
Share(x, y, tx, ty) ==
    IF tx = x + 1 /\ ty = y THEN 7
    ELSE IF tx = x - 1 /\ ty = y + 1 THEN 3
    ELSE IF tx = x /\ ty = y + 1 THEN 5
    ELSE IF tx = x + 1 /\ ty = y + 1 THEN 1
    ELSE 0

\* What the step that quantizes pixel number pos does to the error buffer.
C12_Step ==
    (pc = "scan" /\ dither = "floyd" /\ pc' = "scan" /\ pos' = pos + 1) =>
        LET w == Width(img)
            h == Height(img)
            x == pos % w
            y == pos \div w
            e(c) == FxSubInt(buf[y + 1][x + 1][c], _idx_to_rgb(grid'[y + 1][x + 1])[c])
            got(tx, ty, c) == FxSub(buf'[ty + 1][tx + 1][c], buf[ty + 1][tx + 1][c])
            In(tx, ty) == tx >= 0 /\ tx < w /\ ty < h
            part(tx, ty, c) == IF In(tx, ty) THEN got(tx, ty, c) ELSE Fx(0)
            total(c) == FxAdd(FxAdd(part(x + 1, y, c), part(x - 1, y + 1, c)),
                              FxAdd(part(x, y + 1, c), part(x + 1, y + 1, c)))
            interior == x - 1 >= 0 /\ x + 1 < w /\ y + 1 < h
        IN  \A c \in 1..3 :
                /\ \A tx \in 0..(w - 1), ty \in 0..(h - 1) :
                        Fx16(got(tx, ty, c)) = FxTimes(e(c), Share(x, y, tx, ty))
                /\ interior => total(c) = e(c)
                /\ (~ interior /\ e(c) # Fx(0)) => FxLess(FxAbs(total(c)), FxAbs(e(c)))

\* C12: in floyd mode the residual e of pixel (x, y) goes 7/16 to (x+1, y),
\* 3/16 to (x-1, y+1), 5/16 to (x, y+1) and 1/16 to (x+1, y+1), each only
\* inside the raster and nowhere else; the shares add up to e for an interior
\* pixel and to less than e in magnitude at an edge when e is not zero.
C12_Floyd_Shares == [][C12_Step]_vars

\* The interior pixel (1, 0) of a 3 x 2 raster has just spread a residual.
C12_Witness ==
    /\ pc = "scan"
    /\ dither = "floyd"
    /\ Width(img) = 3
    /\ Height(img) = 2
    /\ pos = 2
    /\ buf[2][1] # << Fx(img[2][1][1]), Fx(img[2][1][2]), Fx(img[2][1][3]) >>
    /\ buf[2][3] # << Fx(img[2][3][1]), Fx(img[2][3][2]), Fx(img[2][3][3]) >>
    /\ \E c \in 1..3 : buf[2][3][c][2] # 0

\* (v // f) * f + f // 2 with f = 256 // levels
BinMidpoint(v, levels) ==
    LET f == 256 \div levels IN (v \div f) * f + f \div 2

\* C13: for 1 <= L <= 256 and every channel value v, _posterize yields
\* (v // f) * f + f // 2 with f = 256 // L; over all v that is at most L
\* distinct values, each of them in 0..255.
C13_Posterize_Levels ==
    (pc = "posterized" /\ poster \in 1..256) =>
        /\ \A y \in 1..Height(src), x \in 1..Width(src), c \in 1..3 :
                /\ img[y][x][c] = BinMidpoint(src[y][x][c], poster)
                /\ BinMidpoint(src[y][x][c], poster) \in 0..255
        /\ Cardinality({ BinMidpoint(v, poster) : v \in 0..255 }) <= poster

\* C14: _idx_to_rgb is total and injective on 0..255: every index yields one
\* RGB triple, two distinct indices never the same one; 16..231 yield the
\* 6 x 6 x 6 cube over {0, 95, 135, 175, 215, 255} and 232..255 the grays
\* 8 + 10 * i.
C14_Palette_Injective ==
    qpc = "both" =>
        /\ Len(back) = 3
        /\ \A c \in 1..3 : back[c] \in 0..255
        /\ idx # idx2 => back # rgb
        /\ idx \in 16..231 =>
             back = << _CUBE_VALUES[((idx - 16) \div 36) + 1],
                       _CUBE_VALUES[(((idx - 16) % 36) \div 6) + 1],
                       _CUBE_VALUES[((idx - 16) % 6) + 1] >>
        /\ idx \in 232..255 =>
             back = << 8 + 10 * (idx - 232), 8 + 10 * (idx - 232), 8 + 10 * (idx - 232) >>

\* The residual of a quantized pixel n = <<nx, ny>>, channel c: its value in
\* buf minus the colour of the index written for it.
ResidualOf(n, c) ==
    FxSubInt(buf[n[2] + 1][n[1] + 1][c], _idx_to_rgb(grid[n[2] + 1][n[1] + 1])[c])

\* The neighbours of (x, y) that lie in the raster and spread error to it.
Givers(x, y) ==
    { n \in { <<x - 1, y>>, <<x + 1, y - 1>>, <<x, y - 1>>, <<x - 1, y - 1>> } :
        n[1] >= 0 /\ n[1] < Width(img) /\ n[2] >= 0 }

\* Sixteen times what the neighbour at offset d sends to (x, y), zero when the
\* neighbour is outside the raster.
SentOf(R(_, _), x, y, d, c) ==
    LET n == << x + d[1], y + d[2] >>
    IN  IF n \in Givers(x, y) THEN FxTimes(R(n, c), Share(n[1], n[2], x, y))
        ELSE Fx(0)

Sent(x, y, d, c) == SentOf(ResidualOf, x, y, d, c)

\* When pixel number pos is about to be quantized, the pixels before it in
\* raster order, its givers among them, are quantized, and its value is the
\* pixel's own plus the shares of its givers.
C15_Received ==
    (pc = "scan" /\ dither = "floyd" /\ pos < Width(img) * Height(img)) =>
        LET w == Width(img)
            x == pos % w
            y == pos \div w
        IN  /\ done_px = { << n % w, n \div w >> : n \in 0..(pos - 1) }
            /\ Givers(x, y) \subseteq done_px
            /\ \A c \in 1..3 :
                    Fx16(FxSub(buf[y + 1][x + 1][c], Fx(img[y + 1][x + 1][c]))) =
                        FxAdd(FxAdd(Sent(x, y, <<-1, 0>>, c), Sent(x, y, <<1, -1>>, c)),
                              FxAdd(Sent(x, y, <<0, -1>>, c), Sent(x, y, <<-1, -1>>, c)))

\* A step of the loops leaves the value and the cell of every quantized
\* pixel as they are.
C15_Frozen ==
    (pc = "scan" /\ dither = "floyd") =>
        \A p \in done_px :
            /\ buf'[p[2] + 1][p[1] + 1] = buf[p[2] + 1][p[1] + 1]
            /\ grid'[p[2] + 1][p[1] + 1] = grid[p[2] + 1][p[1] + 1]

ChosenIndex(n) ==
    LET p == buf[n[2] + 1][n[1] + 1]
    IN  _rgb_to_256(Clamp(FxRound(p[1])), Clamp(FxRound(p[2])), Clamp(FxRound(p[3])))

\* The residual of n against the colour of that index.
ResidualUnremapped(n, c) ==
    FxSubInt(buf[n[2] + 1][n[1] + 1][c], _idx_to_rgb(ChosenIndex(n))[c])

\* The raster the quantizer is to read.
Posterized == IF poster > 0 THEN _posterize(src, poster) ELSE src

\* The index the quantizer writes for pixel n of the posterized raster,
\* before any remap.
PlainIndex(n) ==
    LET p == img[n[2] + 1][n[1] + 1]
        o == BayerOffset(n[1], n[2])
    IN  IF dither = "floyd" THEN ChosenIndex(n)
        ELSE IF dither = "ordered"
             THEN _rgb_to_256(Clamp(p[1] + o), Clamp(p[2] + o), Clamp(p[3] + o))
             ELSE _rgb_to_256(p[1], p[2], p[3])

\* C16: the stages run in the order posterize, dither/quantize, remap: the
\* whole raster is posterized before the first pixel is quantized, the remap
\* is applied only after every cell is quantized, and in floyd mode every
\* residual is taken against the un-remapped palette colour.
C16_Stage_Order ==
    LET w == Width(src)
        all == { << n % w, n \div w >> : n \in 0..(w * Height(src) - 1) }
    IN  /\ pc \in {"entry", "posterized"} =>
            grid = << >> /\ done_px = {} /\ lookup = NoLookup
        /\ pc \in {"scan", "scanned", "done"} => img = Posterized
        /\ pc \in {"scan", "scanned"} =>
            \A p \in done_px : grid[p[2] + 1][p[1] + 1] = PlainIndex(p)
        /\ pc \in {"scanned", "done"} => done_px = all
        /\ pc = "done" =>
            \A p \in all :
                grid[p[2] + 1][p[1] + 1] =
                    IF remap_arg # NoTable THEN remap_arg[PlainIndex(p) + 1]
                    ELSE PlainIndex(p)
        /\ (dither = "floyd" /\ pc \in {"scan", "scanned", "done"}) =>
            \A p \in done_px : \A c \in 1..3 :
                Fx16(FxSub(buf[p[2] + 1][p[1] + 1][c], Fx(img[p[2] + 1][p[1] + 1][c]))) =
                    FxAdd(FxAdd(SentOf(ResidualUnremapped, p[1], p[2], <<-1, 0>>, c),
                                SentOf(ResidualUnremapped, p[1], p[2], <<1, -1>>, c)),
                          FxAdd(SentOf(ResidualUnremapped, p[1], p[2], <<0, -1>>, c),
                                SentOf(ResidualUnremapped, p[1], p[2], <<-1, -1>>, c)))

\* A floyd call with all three stages, each of which changed something.
C16_Witness ==
    /\ pc = "done"
    /\ dither = "floyd"
    /\ poster = 4
    /\ remap_arg # NoTable
    /\ img # src
    /\ Width(src) = RasterW
    /\ Height(src) = RasterH
    /\ grid # _build_idx_grid(src, dither, NoTable, poster).grid
    /\ \E c \in 1..3 : buf[RasterH][RasterW][c][2] # 0

\* The number of glyphs of a line.
Glyphs(line) == Cardinality({ i \in 1..Len(line) : line[i] = Ch(glyph) })

\* The colour escapes of a line: the tokens that set a foreground and a
\* background index.
ColourCodes(line) ==
    { line[i].code : i \in { k \in 1..Len(line) : line[k].t = "esc" /\ Len(line[k].code) = 4 } }

\* C17: render_image returns _image_height(columns, border, caption) lines
\* for every width, border flag and caption, the empty one included: rows/2
\* image lines of `inner` glyphs each, rows being the inner width rounded up
\* to even, plus with a border 1 top line and 3 (caption) or 4 (no caption)
\* lines; 4 columns without border give 2 lines of 4 glyphs, and a uniform
\* raster in none mode one foreground = background index in every glyph.
\* (Stated of the calls that return: an inner width below 1 makes PIL's
\* resize raise.)
C17_Line_Count ==
    vpc \in {"returned", "previewed"} =>
        LET inner == IF border THEN columns - 2 ELSE columns
            rows == inner + (inner % 2)
            top == IF border THEN 1 ELSE 0
            band == IF ~ border THEN 0
                    ELSE IF caption.given /\ caption.text # << >> THEN 3 ELSE 4
            imageLines == { top + k : k \in 1..(rows \div 2) }
        IN  /\ Len(lines) = img_lines
            /\ Len(lines) = top + (rows \div 2) + band
            /\ \A i \in imageLines : Glyphs(lines[i]) = inner
            /\ (columns = 4 /\ ~ border) =>
                    Len(lines) = 2 /\ Glyphs(lines[1]) = 4 /\ Glyphs(lines[2]) = 4
            /\ (image.kind = "uniform" /\ dither \notin {"floyd", "ordered"}) =>
                    \E ix \in 0..255 :
                        \A i \in imageLines :
                            ColourCodes(lines[i]) = { <<"38;5;", ix, ";48;5;", ix>> }

\* A uniform picture rendered 4 columns wide without border, mode none.
C17_Witness ==
    /\ vpc = "returned"
    /\ columns = 4
    /\ ~ border
    /\ image.kind = "uniform"
    /\ dither = "none"
    /\ Len(lines) = 2
    /\ img_lines = 2

\* The colour escapes of a line, in order.
CellCodes(line) ==
    LET IsCell(t) == t.t = "esc" /\ Len(t.code) = 4
    IN  SelectSeq(line, IsCell)

\* C18: the grid handed to the compositor has even height: render_image and
\* render_preview round the row count up to the next even number before
\* resizing and quantizing, so output line k takes its foreground from row
\* 2k and its background from row 2k+1, both of which exist, and no row is
\* left over.
C18_Even_Height ==
    /\ vpc \in {"building", "returned"} =>
        /\ Width(src) = Inner(columns, border)
        /\ Height(src) % 2 = 0
        /\ Height(src) \in { Width(src), Width(src) + 1 }
        /\ pc \in {"scan", "scanned", "done"} =>
                Len(grid) = Height(src) /\ \A y \in 1..Len(grid) : Len(grid[y]) = Width(src)
    /\ vpc \in {"returned", "previewing", "previewed"} =>
        LET top == IF border THEN 1 ELSE 0
            inner == Inner(columns, border)
        IN  /\ Len(render_grid) % 2 = 0
            /\ Len(render_grid) \in { inner, inner + 1 }
            /\ \A k \in 0..((Len(render_grid) \div 2) - 1) :
                    /\ top + k + 1 <= Len(lines)
                    /\ Len(CellCodes(lines[top + k + 1])) = inner
                    /\ \A x \in 1..inner :
                            CellCodes(lines[top + k + 1])[x].code =
                                <<"38;5;", render_grid[2 * k + 1][x],
                                  ";48;5;", render_grid[2 * k + 2][x]>>
            /\ \A i \in 1..Len(lines) :
                    (i <= top \/ i > top + (Len(render_grid) \div 2)) =>
                        CellCodes(lines[i]) = << >>
    /\ vpc \in {"previewing", "previewed"} =>
        /\ Width(src) = columns
        /\ Height(src) % 2 = 0
        /\ Height(src) \in { columns, columns + 1 }
        /\ pc \in {"scan", "scanned", "done"} =>
                Len(grid) = Height(src) /\ \A y \in 1..Len(grid) : Len(grid[y]) = columns
    /\ vpc = "previewed" =>
        /\ Len(preview_grid) % 2 = 0
        /\ Len(preview_grid) \in { columns, columns + 1 }
        /\ \A y \in 1..Len(preview_grid) : Len(preview_grid[y]) = columns
        /\ Len(preview) = scale * Len(preview_grid)

\* An odd inner width: 3 columns, no border, rendered and previewed on 4 rows.
C18_Witness ==
    /\ vpc = "previewed"
    /\ columns = 3
    /\ ~ border
    /\ Len(render_grid) = 4
    /\ Len(lines) = 2
    /\ Len(preview_grid) = 4

\* active_row and every selected[row] are valid indices.
C19_Valid ==
    mpc # "idle" =>
        /\ active_row \in 0..3
        /\ Len(selected) = 4
        /\ \A row \in 1..4 : selected[row] \in 0..(Len(settings[row]) - 1)

\* What one key press does.
C19_Key ==
    mpc = "loop" =>
        LET same == selected' = selected /\ active_row' = active_row /\ drawn' = "nothing"
            last == Len(settings[active_row + 1]) - 1
        IN  /\ (key' = "left" /\ selected[active_row + 1] = 0) => same
            /\ (key' = "right" /\ selected[active_row + 1] = last) => same
            /\ (key' = "up" /\ active_row = 0) => same
            /\ (key' = "down" /\ active_row = 3) => same
            /\ drawn' = "all" <=> (key' \in {"left", "right"} /\ selected' # selected)
            /\ key' \in {"up", "down"} => selected' = selected

\* C19: in the settings menu loop active_row stays in 0..3 and every
\* selected[row] a valid index of its row's options; a left key at index 0,
\* a right key at the last index, an up key at row 0 and a down key at the
\* last row change nothing; the image is rendered again exactly when a left
\* or right key changed a selected value, never on up or down.
C19_Menu_Loop == [] C19_Valid /\ [][C19_Key]_vars

\* A right key on the last option of the last row, after moves in all rows.
C19_Witness ==
    /\ mpc = "loop"
    /\ key = "right"
    /\ active_row = 3
    /\ selected = <<3, 2, 2, Len(settings[4]) - 1>>
    /\ Len(settings[4]) > 1
    /\ drawn = "nothing"

\* The call has ended after starting the thread: the event is set and the
\* thread has terminated; and the thread leaves its loop only once the event
\* is set.
C20_Stopped_And_Joined ==
    /\ (gpc = "exited" /\ api_key) => (stop /\ tpc = "terminated" /\ outcome # "none")
    /\ tpc \in {"cleanup", "terminated"} => stop

\* C20: once generate_image has started the spinner thread, on every exit
\* path (image bytes returned, no image, any exception turned into
\* SystemExit) the stop event is set and the thread has terminated before
\* control leaves generate_image, and the spinner loop ends after the stop
\* event is set.
C20_Spinner_Joined ==
    /\ [] C20_Stopped_And_Joined
    /\ (stop ~> tpc = "terminated")
    /\ (gpc = "finally" ~> gpc = "exited")

\* The API call raised while the spinner had drawn a frame.
C20_Witness ==
    /\ gpc = "exited"
    /\ response = "503"
    /\ outcome = "SystemExit"
    /\ stop
    /\ tpc = "terminated"
    /\ dots # 0

====
